---- MODULE Spec2Model ----
(***************************************************************************)
(* The S402 payment gate of newblock/s402sdk_demo: the three gating        *)
(* middlewares (requireS402, requireS402Async, optionalS402), the proof    *)
(* validation they call, the EIP-712 signature verifier, the settlement    *)
(* verifier and the global error handler.                                  *)
(*                                                                         *)
(* Representation.  Hex strings (addresses, nonces, hashes) are tokens;    *)
(* the operators addressSchema, hex32Schema, toLowerCase, ... say what the *)
(* code's regular expressions and conversions do to each token.  Decimal   *)
(* strings are sequences of characters, parsed and printed digit by digit. *)
(* Error messages are sequences of words, each interpolated value being    *)
(* the one word "<v>" (digits and hex cannot spell a marker word), and     *)
(* String.includes is the search for a contiguous run of words.  ECDSA is  *)
(* symbolic: the r of a signature names the key and the typed-data digest  *)
(* it was made over, and recovery returns the key's address only for that  *)
(* digest.                                                                 *)
(***************************************************************************)
EXTENDS Integers, Sequences, FiniteSets, TLC

(***************************************************************************)
(* Bounds of the model.                                                    *)
(***************************************************************************)
\* the clock runs over Now0 .. Now0 + MaxTicks (unix seconds)
MaxTicks == 1
\* the chain client answers block heights 0 .. MaxHead
MaxHead == 3

(***************************************************************************)
(* Program constants.                                                      *)
(***************************************************************************)
\* s402Service.ts:48  deadline = now + 600
DEADLINE_WINDOW == 600
\* s402Service.ts:128  the only chain id validateSubmittedProof accepts
EXPECTED_CHAIN_ID == 56
\* constants.ts: S402_FACILITATOR (checksummed, mixed case), USD1_TOKEN
S402_FACILITATOR == "0xF0"
USD1_TOKEN == "0xE0"
ZERO_ADDRESS == "0x00"
\* env.ts loadConfig: Recipient, kept as written in config.txt
RECIPIENT == "0xC3"
\* env.ts loadConfig: BASE_PRICE_USD1 (token units, a decimal string)
BASE_PRICE_USD1 == <<"5">>
\* the clock when the behaviour starts
Now0 == 1000

(***************************************************************************)
(* Strings.                                                                *)
(***************************************************************************)
Digits == {"0", "1", "2", "3", "4", "5", "6", "7", "8", "9"}

DigitVal(c) ==
  CASE c = "0" -> 0 [] c = "1" -> 1 [] c = "2" -> 2 [] c = "3" -> 3
    [] c = "4" -> 4 [] c = "5" -> 5 [] c = "6" -> 6 [] c = "7" -> 7
    [] c = "8" -> 8 [] c = "9" -> 9

DigitChar(d) ==
  CASE d = 0 -> "0" [] d = 1 -> "1" [] d = 2 -> "2" [] d = 3 -> "3"
    [] d = 4 -> "4" [] d = 5 -> "5" [] d = 6 -> "6" [] d = 7 -> "7"
    [] d = 8 -> "8" [] d = 9 -> "9"

\* /^\d+$/ : one or more decimal digits and nothing else
IsDecimalString(s) == Len(s) >= 1 /\ \A k \in 1..Len(s) : s[k] \in Digits

\* BigInt(s) of a decimal string
RECURSIVE BigInt(_)
BigInt(s) ==
  IF Len(s) = 0 THEN 0
  ELSE 10 * BigInt(SubSeq(s, 1, Len(s) - 1)) + DigitVal(s[Len(s)])

\* bigint.toString(): no sign (prices are not negative), no leading zero
RECURSIVE BigIntToString(_)
BigIntToString(n) ==
  IF n < 10 THEN <<DigitChar(n)>>
  ELSE Append(BigIntToString(n \div 10), DigitChar(n % 10))

\* String.prototype.includes on word sequences
Includes(msg, marker) ==
  \E k \in 1..(Len(msg) - Len(marker) + 1) :
    SubSeq(msg, k, k + Len(marker) - 1) = marker

(***************************************************************************)
(* Hex tokens.  Each 20-byte address has a checksummed (mixed case) and a  *)
(* lower-case spelling; "0xa1BAD" is 40 hex digits in a mixed case whose   *)
(* checksum is wrong; "0xg" is not 40 hex digits.                          *)
(***************************************************************************)
toLowerCase(a) ==
  CASE a = "0xA1" -> "0xa1" [] a = "0xa1BAD" -> "0xa1"
    [] a = "0xB2" -> "0xb2"
    [] a = "0xC3" -> "0xc3"
    [] a = "0xD4" -> "0xd4"
    [] a = "0xF0" -> "0xf0"
    [] a = "0xE0" -> "0xe0"
    [] OTHER -> a

WellFormedAddresses ==
  {"0xA1", "0xa1", "0xa1BAD", "0xB2", "0xb2", "0xC3", "0xc3", "0xD4", "0xd4",
   "0xF0", "0xf0", "0xE0", "0xe0", "0x00", "0x99"}

\* schema.ts:34  /^0x[0-9a-fA-F]{40}$/i
addressSchema(a) == a \in WellFormedAddresses

\* ethers getAddress: a mixed-case address must carry the right checksum
ChecksumOk(a) == a \in WellFormedAddresses \ {"0xa1BAD"}

WellFormedHex32 == {"0xn1", "0xn2", "0xt1", "0xs1", "0xs2", "0x0000"}

\* schema.ts:35-36  /^0x[0-9a-fA-F]{64}$/i
hex32Schema(h) == h \in WellFormedHex32
txHashSchema(h) == h \in WellFormedHex32

(***************************************************************************)
(* Configuration (config/env.ts).  loadConfig runs once; CHAIN_ID and      *)
(* MINIMUM_CONFIRMATIONS (1..100 by configSchema) are drawn in Init.       *)
(***************************************************************************)
VARIABLES config, now

\* env.ts parsePriceTable: the per-route overrides of PRICE_TABLE_JSON
PriceTable == [r \in {"tool.analytics"} |-> <<"7">>]

RouteKeys == {"tool.example", "tool.analytics"}

ChainIds == {56, 97}

getChainId == config.CHAIN_ID

getMinimumConfirmations == config.MINIMUM_CONFIRMATIONS

\* Faulty variant of getPriceForRoute: the table is not consulted
getPriceForRoute_BaseOnly(routeKey) == BigInt(BASE_PRICE_USD1)

\* pricingService.ts getPriceForRoute: the override when the table has a
\* truthy (non-empty) entry for the route, the base price otherwise
getPriceForRoute(routeKey) ==
  LET priceTable == config.PRICE_TABLE_JSON IN
  IF routeKey \in DOMAIN priceTable /\ priceTable[routeKey] # <<>>
  THEN BigInt(priceTable[routeKey])
  ELSE BigInt(BASE_PRICE_USD1)

\* pricingService.ts getRecipientForRoute: the global recipient
getRecipientForRoute(routeKey) == config.RECIPIENT

(***************************************************************************)
(* EIP-712 (symbolic).                                                     *)
(***************************************************************************)
Keys == {"k1", "k2"}

\* the checksummed address of a private key
AddressOfKey(k) == IF k = "k1" THEN "0xA1" ELSE "0xB2"

\* what recovery yields when the signature was not made over the digest
JUNK_ADDRESS == "0x99"

buildEIP712Domain ==
  [name |-> "S402Facilitator", version |-> "1", chainId |-> getChainId,
   verifyingContract |-> S402_FACILITATOR]

\* TypedDataEncoder.hash: addresses are hashed as 20 bytes (their case is
\* lost), uint256 values as numbers, bytes32 as bytes
TypedDataDigest(domain, value) ==
  [name |-> domain.name, version |-> domain.version,
   chainId |-> domain.chainId,
   verifyingContract |-> toLowerCase(domain.verifyingContract),
   owner |-> toLowerCase(value.owner),
   spender |-> toLowerCase(value.spender),
   value |-> BigInt(value.value),
   deadline |-> value.deadline,
   recipient |-> toLowerCase(value.recipient),
   nonce |-> value.nonce]

\* the encoder rejects an address whose mixed-case checksum is wrong
TypedDataEncodable(domain, value) ==
  /\ ChecksumOk(domain.verifyingContract)
  /\ ChecksumOk(value.owner)
  /\ ChecksumOk(value.spender)
  /\ ChecksumOk(value.recipient)

NoDigest ==
  [name |-> "", version |-> "", chainId |-> 0, verifyingContract |-> "",
   owner |-> "", spender |-> "", value |-> 0, deadline |-> 0,
   recipient |-> "", nonce |-> ""]

\* Faulty variant of buildAuthTypedData: the spender is the recipient of
\* the payment instead of the domain's verifying contract
buildAuthTypedData_SpenderIsRecipient(domain, payment) ==
  [owner |-> payment.owner, spender |-> payment.recipient,
   value |-> payment.value, deadline |-> payment.deadline,
   recipient |-> payment.recipient, nonce |-> payment.nonce]

\* sdk/payments.ts buildAuthTypedData: the message the SDK signs
buildAuthTypedData(domain, payment) ==
  [owner |-> payment.owner, spender |-> domain.verifyingContract,
   value |-> payment.value, deadline |-> payment.deadline,
   recipient |-> payment.recipient, nonce |-> payment.nonce]

\* signer.signTypedData(domain, types, value), split into v, r, s
\* (payments.ts:47-61)
signTypedData(key, domain, value) ==
  [v |-> 27,
   r |-> [kind |-> "sig", key |-> key, msg |-> TypedDataDigest(domain, value)],
   s |-> "0xs1"]

\* sdk/payments.ts signPaymentAuth: signer.signTypedData split into v, r, s
signPaymentAuth(key, domain, payment) ==
  [v |-> 27,
   r |-> [kind |-> "sig", key |-> key,
          msg |-> TypedDataDigest(domain, buildAuthTypedData(domain, payment))],
   s |-> "0xs1"]

\* sdk/payments.ts buildPermitTypedData: the EIP-2612 permit of the token
buildPermitTypedData(tokenAddress, chainId, owner, spender, value, deadline, nonce) ==
  [domain |-> [name |-> "USD1", version |-> "1", chainId |-> chainId,
               verifyingContract |-> tokenAddress],
   message |-> [owner |-> owner, spender |-> spender, value |-> value,
                nonce |-> nonce, deadline |-> deadline]]

\* TypedDataEncoder.hash of a Permit
PermitDigest(domain, message) ==
  [name |-> domain.name, version |-> domain.version,
   chainId |-> domain.chainId,
   verifyingContract |-> toLowerCase(domain.verifyingContract),
   owner |-> toLowerCase(message.owner),
   spender |-> toLowerCase(message.spender),
   value |-> BigInt(message.value),
   permitNonce |-> message.nonce,
   deadline |-> message.deadline]

\* sdk/payments.ts signPermit (nonce defaults to 0)
signPermit(key, tokenAddress, chainId, spender, value, deadline) ==
  LET typedData == buildPermitTypedData(tokenAddress, chainId,
                                        AddressOfKey(key), spender, value,
                                        deadline, 0)
  IN [v |-> 27,
      r |-> [kind |-> "sig", key |-> key,
             msg |-> PermitDigest(typedData.domain, typedData.message)],
      s |-> "0xs1"]

\* an r that is 32 bytes of hex but no signature's r; the zero r; a
\* string that is not 32 bytes of hex
TamperedR == [kind |-> "hex32", key |-> "none", msg |-> NoDigest]
ZeroR == [kind |-> "zero", key |-> "none", msg |-> NoDigest]
MalformedR == [kind |-> "malformed", key |-> "none", msg |-> NoDigest]

THROWS == "<throws>"

\* ethers.verifyTypedData(domain, types, value, signature): the address the
\* signature recovers to over the digest of value, or an exception
verifyTypedData(domain, value, sig) ==
  IF ~TypedDataEncodable(domain, value) THEN THROWS
  ELSE IF sig.r.kind = "zero" \/ sig.s = "0x0000" THEN THROWS
  ELSE IF /\ sig.r.kind = "sig"
          /\ sig.s = "0xs1"
          /\ sig.v = 27
          /\ sig.r.msg = TypedDataDigest(domain, value)
       THEN AddressOfKey(sig.r.key)
       ELSE JUNK_ADDRESS

\* Faulty variant of verifyEIP712Signature: an exception during recovery
\* is not taken as a failure
verifyEIP712Signature_AcceptsOnException(payment, authSig, domain) ==
  LET value == [owner |-> payment.owner,
                spender |-> S402_FACILITATOR,
                value |-> payment.value,
                deadline |-> payment.deadline,
                recipient |-> payment.recipient,
                nonce |-> payment.nonce]
      recoveredAddress == verifyTypedData(domain, value, authSig)
  IN IF recoveredAddress = THROWS THEN TRUE
     ELSE toLowerCase(recoveredAddress) = toLowerCase(payment.owner)

\* Faulty variant of verifyEIP712Signature: the spender is read from the
\* domain it is given instead of being the configured facilitator
verifyEIP712Signature_SpenderFromDomain(payment, authSig, domain) ==
  LET value == [owner |-> payment.owner,
                spender |-> domain.verifyingContract,
                value |-> payment.value,
                deadline |-> payment.deadline,
                recipient |-> payment.recipient,
                nonce |-> payment.nonce]
      recoveredAddress == verifyTypedData(domain, value, authSig)
  IN IF recoveredAddress = THROWS THEN FALSE
     ELSE toLowerCase(recoveredAddress) = toLowerCase(payment.owner)

\* Faulty variant of verifyEIP712Signature: any signature that recovers to
\* some address is accepted, whoever the owner is
verifyEIP712Signature_NoOwnerCompare(payment, authSig, domain) ==
  LET value == [owner |-> payment.owner,
                spender |-> S402_FACILITATOR,
                value |-> payment.value,
                deadline |-> payment.deadline,
                recipient |-> payment.recipient,
                nonce |-> payment.nonce]
  IN verifyTypedData(domain, value, authSig) # THROWS

\* s402Service.ts verifyEIP712Signature
verifyEIP712Signature(payment, authSig, domain) ==
  LET value == [owner |-> payment.owner,
                spender |-> S402_FACILITATOR,
                value |-> payment.value,
                deadline |-> payment.deadline,
                recipient |-> payment.recipient,
                nonce |-> payment.nonce]
      recoveredAddress == verifyTypedData(domain, value, authSig)
  IN IF recoveredAddress = THROWS THEN FALSE
     ELSE toLowerCase(recoveredAddress) = toLowerCase(payment.owner)

(***************************************************************************)
(* Proof schema (shared/schema.ts).                                        *)
(***************************************************************************)
\* an optional field that is not there
UNDEFINED == "undefined"
AbsentSig == [v |-> 0, r |-> MalformedR, s |-> UNDEFINED]

signatureSchema(sig) ==
  /\ sig.v >= 27 /\ sig.v <= 28
  /\ sig.r.kind \in {"sig", "hex32", "zero"}
  /\ hex32Schema(sig.s)

paymentDataSchema(p) ==
  /\ addressSchema(p.owner)
  /\ IsDecimalString(p.value)
  /\ p.deadline > 0
  /\ addressSchema(p.recipient)
  /\ hex32Schema(p.nonce)

s402ProofSchema(proof) ==
  /\ paymentDataSchema(proof.payment)
  /\ (proof.permitSig = AbsentSig \/ signatureSchema(proof.permitSig))
  /\ signatureSchema(proof.authSig)
  /\ (proof.txHash = UNDEFINED \/ txHashSchema(proof.txHash))

(***************************************************************************)
(* Parameter validation (validateSubmittedProof, lines 99-135, and the     *)
(* same lines of validateSubmittedProofAsync).  The errors, in the order   *)
(* the code pushes them.                                                   *)
(***************************************************************************)
ErrTxHash == <<"Transaction", "hash", "is", "required", "for", "verification">>
ErrValue == <<"Invalid", "payment", "value", ":", "expected", "<v>", ",", "got", "<v>">>
ErrRecipient == <<"Invalid", "recipient", ":", "expected", "<v>", ",", "got", "<v>">>
ErrDeadline == <<"Payment", "deadline", "expired", ":", "<v>", "<=", "<v>">>
ErrChainId == <<"Invalid", "chain", "ID", ":", "expected", "56", ",", "configured", "as", "<v>">>

\* Faulty variant of ParameterErrorsAt: it stops at the first failing
\* parameter instead of collecting them all
ParameterErrorsAt_FirstOnly(proof, expectedPrice, expectedRecipient, t) ==
  IF proof.txHash = UNDEFINED THEN <<ErrTxHash>>
  ELSE IF proof.payment.value # BigIntToString(expectedPrice) THEN <<ErrValue>>
  ELSE IF toLowerCase(proof.payment.recipient) # toLowerCase(expectedRecipient)
    THEN <<ErrRecipient>>
  ELSE IF proof.payment.deadline <= t THEN <<ErrDeadline>>
  ELSE IF getChainId # EXPECTED_CHAIN_ID THEN <<ErrChainId>>
  ELSE <<>>

\* Faulty variant of ParameterErrorsAt: the transaction hash is not required
ParameterErrorsAt_NoTxHashCheck(proof, expectedPrice, expectedRecipient, t) ==
  (IF proof.payment.value # BigIntToString(expectedPrice)
      THEN <<ErrValue>> ELSE <<>>)
  \o (IF toLowerCase(proof.payment.recipient) # toLowerCase(expectedRecipient)
      THEN <<ErrRecipient>> ELSE <<>>)
  \o (IF proof.payment.deadline <= t THEN <<ErrDeadline>> ELSE <<>>)
  \o (IF getChainId # EXPECTED_CHAIN_ID THEN <<ErrChainId>> ELSE <<>>)

\* Faulty variant of ParameterErrorsAt: a deadline equal to now is let through
ParameterErrorsAt_LaxDeadline(proof, expectedPrice, expectedRecipient, t) ==
  (IF proof.txHash = UNDEFINED THEN <<ErrTxHash>> ELSE <<>>)
  \o (IF proof.payment.value # BigIntToString(expectedPrice)
      THEN <<ErrValue>> ELSE <<>>)
  \o (IF toLowerCase(proof.payment.recipient) # toLowerCase(expectedRecipient)
      THEN <<ErrRecipient>> ELSE <<>>)
  \o (IF proof.payment.deadline < t THEN <<ErrDeadline>> ELSE <<>>)
  \o (IF getChainId # EXPECTED_CHAIN_ID THEN <<ErrChainId>> ELSE <<>>)

\* Faulty variant of ParameterErrorsAt: the configured chain id is not
\* looked at
ParameterErrorsAt_NoChainCheck(proof, expectedPrice, expectedRecipient, t) ==
  (IF proof.txHash = UNDEFINED THEN <<ErrTxHash>> ELSE <<>>)
  \o (IF proof.payment.value # BigIntToString(expectedPrice)
      THEN <<ErrValue>> ELSE <<>>)
  \o (IF toLowerCase(proof.payment.recipient) # toLowerCase(expectedRecipient)
      THEN <<ErrRecipient>> ELSE <<>>)
  \o (IF proof.payment.deadline <= t THEN <<ErrDeadline>> ELSE <<>>)

\* t is the code's Math.floor(Date.now() / 1000)
ParameterErrorsAt(proof, expectedPrice, expectedRecipient, t) ==
  (IF proof.txHash = UNDEFINED THEN <<ErrTxHash>> ELSE <<>>)
  \o (IF proof.payment.value # BigIntToString(expectedPrice)
      THEN <<ErrValue>> ELSE <<>>)
  \o (IF toLowerCase(proof.payment.recipient) # toLowerCase(expectedRecipient)
      THEN <<ErrRecipient>> ELSE <<>>)
  \o (IF proof.payment.deadline <= t THEN <<ErrDeadline>> ELSE <<>>)
  \o (IF getChainId # EXPECTED_CHAIN_ID THEN <<ErrChainId>> ELSE <<>>)

ParameterErrors(proof, expectedPrice, expectedRecipient) ==
  ParameterErrorsAt(proof, expectedPrice, expectedRecipient, now)

\* errors.join(", ")
RECURSIVE Join(_)
Join(errors) ==
  IF Len(errors) = 0 THEN <<>>
  ELSE IF Len(errors) = 1 THEN errors[1]
  ELSE errors[1] \o <<",">> \o Join(Tail(errors))

ProofValidationMessage(errors) ==
  <<"Proof", "validation", "failed", ":">> \o Join(errors)

InvalidSignatureMessage ==
  <<"Invalid", "signature", ":", "EIP-712", "signature", "verification", "failed">>

TransactionVerificationMessage(error) ==
  <<"Transaction", "verification", "failed", ":">> \o error

\* the message of a ZodError: the JSON of its issues (codes, paths and
\* zod's own texts: "Invalid", "Required", "Expected string, received ...")
ZodErrorMessage == <<"[", "{", "code", "path", "message", "Invalid", "}", "]">>

(***************************************************************************)
(* Settlement verifier (blockchainService.ts verifyTransactionSettlement). *)
(* It suspends three times, on getTransactionReceipt, getBlockNumber and   *)
(* getTransaction; the code between two suspensions is one operator.  The  *)
(* chain client's answers are inputs: any receipt, any height, any         *)
(* transaction, or an exception.                                           *)
(***************************************************************************)
VerifyResult(verified, confirmations, error) ==
  [verified |-> verified, confirmations |-> confirmations, error |-> error]

\* no result yet
Pending == VerifyResult(FALSE, 0, <<"<pending>">>)

ErrNotFound == <<"Transaction", "not", "found">>
ErrInsufficient == <<"Insufficient", "confirmations", ":", "<v>", "/", "<v>">>
ErrTxFailed == <<"Transaction", "failed">>
ErrWrongContract == <<"Wrong", "contract", "called">>
ErrTxUnavailable == <<"Transaction", "data", "unavailable">>
ErrUnparseable == <<"Unable", "to", "parse", "transaction", "calldata">>
ErrUnexpectedCall == <<"Unexpected", "function", "call">>
ErrMissingArgs == <<"Missing", "payment", "arguments">>
ErrMismatch == <<"Payment", "parameters", "mismatch">>
ErrVerification == <<"Verification", "failed">>

\* Faulty variant of LogMatches: only the event's value is compared, not
\* value plus platform fee
LogMatches_NetOnly(log, payment) ==
  /\ log.kind = "event"
  /\ log.name = "PaymentSettled"
  /\ toLowerCase(log.from) = toLowerCase(payment.owner)
  /\ toLowerCase(log.to) = toLowerCase(payment.recipient)
  /\ log.nonce = payment.nonce
  /\ log.value = BigInt(payment.value)

\* lines 77-99: one log of the receipt against the expected payment.
\* parseLog throws on (or returns null for) a log that is not the
\* facilitator's; both are skipped
LogMatches(log, payment) ==
  /\ log.kind = "event"
  /\ log.name = "PaymentSettled"
  /\ toLowerCase(log.from) = toLowerCase(payment.owner)
  /\ toLowerCase(log.to) = toLowerCase(payment.recipient)
  /\ log.nonce = payment.nonce
  /\ \/ log.value = BigInt(payment.value)
     \/ log.value + log.platformFee = BigInt(payment.value)

\* lines 74-103
matchedEvent(logs, payment) ==
  \E k \in 1..Len(logs) : LogMatches(logs[k], payment)

\* lines 23-28: the receipt has been answered
AfterReceipt(answer) ==
  IF answer.kind = "throws" THEN VerifyResult(FALSE, 0, ErrVerification)
  ELSE IF answer.kind = "null" THEN VerifyResult(FALSE, 0, ErrNotFound)
  ELSE Pending

\* Faulty variant of AfterBlockNumber: the logs are not looked at, the call
\* data always is
AfterBlockNumber_AlwaysFallsBack(receipt, answer, payment) ==
  IF answer.kind = "throws" THEN VerifyResult(FALSE, 0, ErrVerification)
  ELSE
    LET confirmations == answer.n - receipt.blockNumber + 1 IN
    IF confirmations < getMinimumConfirmations
      THEN VerifyResult(FALSE, confirmations, ErrInsufficient)
    ELSE IF receipt.status # 1
      THEN VerifyResult(FALSE, confirmations, ErrTxFailed)
    ELSE IF toLowerCase(receipt.to) # toLowerCase(S402_FACILITATOR)
      THEN VerifyResult(FALSE, confirmations, ErrWrongContract)
    ELSE [Pending EXCEPT !.confirmations = confirmations]

\* Faulty variant of AfterBlockNumber: the status of the receipt is looked
\* at before the confirmations
AfterBlockNumber_StatusFirst(receipt, answer, payment) ==
  IF answer.kind = "throws" THEN VerifyResult(FALSE, 0, ErrVerification)
  ELSE
    LET confirmations == answer.n - receipt.blockNumber + 1 IN
    IF receipt.status # 1
      THEN VerifyResult(FALSE, confirmations, ErrTxFailed)
    ELSE IF confirmations < getMinimumConfirmations
      THEN VerifyResult(FALSE, confirmations, ErrInsufficient)
    ELSE IF toLowerCase(receipt.to) # toLowerCase(S402_FACILITATOR)
      THEN VerifyResult(FALSE, confirmations, ErrWrongContract)
    ELSE IF matchedEvent(receipt.logs, payment)
      THEN VerifyResult(TRUE, confirmations, <<>>)
    ELSE [Pending EXCEPT !.confirmations = confirmations]

\* Faulty variant of AfterBlockNumber: the block of the transaction itself
\* is not counted as a confirmation
AfterBlockNumber_OffByOne(receipt, answer, payment) ==
  IF answer.kind = "throws" THEN VerifyResult(FALSE, 0, ErrVerification)
  ELSE
    LET confirmations == answer.n - receipt.blockNumber IN
    IF confirmations < getMinimumConfirmations
      THEN VerifyResult(FALSE, confirmations, ErrInsufficient)
    ELSE IF receipt.status # 1
      THEN VerifyResult(FALSE, confirmations, ErrTxFailed)
    ELSE IF toLowerCase(receipt.to) # toLowerCase(S402_FACILITATOR)
      THEN VerifyResult(FALSE, confirmations, ErrWrongContract)
    ELSE IF matchedEvent(receipt.logs, payment)
      THEN VerifyResult(TRUE, confirmations, <<>>)
    ELSE [Pending EXCEPT !.confirmations = confirmations]

\* lines 31-114: the block height has been answered
AfterBlockNumber(receipt, answer, payment) ==
  IF answer.kind = "throws" THEN VerifyResult(FALSE, 0, ErrVerification)
  ELSE
    LET confirmations == answer.n - receipt.blockNumber + 1 IN
    IF confirmations < getMinimumConfirmations
      THEN VerifyResult(FALSE, confirmations, ErrInsufficient)
    ELSE IF receipt.status # 1
      THEN VerifyResult(FALSE, confirmations, ErrTxFailed)
    ELSE IF toLowerCase(receipt.to) # toLowerCase(S402_FACILITATOR)
      THEN VerifyResult(FALSE, confirmations, ErrWrongContract)
    ELSE IF matchedEvent(receipt.logs, payment)
      THEN VerifyResult(TRUE, confirmations, <<>>)
    ELSE [Pending EXCEPT !.confirmations = confirmations]

\* Faulty variant of calldataMatches: the transaction's sender is not
\* compared with the owner
calldataMatches_AnySender(tx, payment) ==
  /\ toLowerCase(tx.payment.owner) = toLowerCase(payment.owner)
  /\ toLowerCase(tx.payment.recipient) = toLowerCase(payment.recipient)
  /\ BigIntToString(tx.payment.value) = payment.value
  /\ tx.payment.deadline = payment.deadline
  /\ tx.payment.nonce = payment.nonce

\* lines 147-154
calldataMatches(tx, payment) ==
  /\ toLowerCase(tx.payment.owner) = toLowerCase(payment.owner)
  /\ toLowerCase(tx.payment.recipient) = toLowerCase(payment.recipient)
  /\ BigIntToString(tx.payment.value) = payment.value
  /\ tx.payment.deadline = payment.deadline
  /\ tx.payment.nonce = payment.nonce
  /\ toLowerCase(tx.from) = toLowerCase(payment.owner)

\* Faulty variant of AfterTransaction: an exception of getTransaction is
\* reported with the confirmations counted so far
AfterTransaction_KeepsConfirmations(confirmations, answer, payment) ==
  IF answer.kind = "throws"
    THEN VerifyResult(FALSE, confirmations, ErrVerification)
  ELSE IF answer.kind = "null"
    THEN VerifyResult(FALSE, confirmations, ErrTxUnavailable)
  ELSE IF answer.fn = "garbage"
    THEN VerifyResult(FALSE, confirmations, ErrUnparseable)
  ELSE IF answer.fn \notin {"settlePayment", "settlePaymentWithPermit"}
    THEN VerifyResult(FALSE, confirmations, ErrUnexpectedCall)
  ELSE IF ~answer.hasPayment
    THEN VerifyResult(FALSE, confirmations, ErrMissingArgs)
  ELSE IF ~calldataMatches(answer, payment)
    THEN VerifyResult(FALSE, confirmations, ErrMismatch)
  ELSE VerifyResult(TRUE, confirmations, <<>>)

\* Faulty variant of AfterTransaction: the name of the decoded function is
\* not looked at
AfterTransaction_NameUnchecked(confirmations, answer, payment) ==
  IF answer.kind = "throws" THEN VerifyResult(FALSE, 0, ErrVerification)
  ELSE IF answer.kind = "null"
    THEN VerifyResult(FALSE, confirmations, ErrTxUnavailable)
  ELSE IF answer.fn = "garbage"
    THEN VerifyResult(FALSE, confirmations, ErrUnparseable)
  ELSE IF ~answer.hasPayment
    THEN VerifyResult(FALSE, confirmations, ErrMissingArgs)
  ELSE IF ~calldataMatches(answer, payment)
    THEN VerifyResult(FALSE, confirmations, ErrMismatch)
  ELSE VerifyResult(TRUE, confirmations, <<>>)

\* Faulty variant of AfterTransaction: a call of a settlement function is
\* accepted without its arguments being compared with the payment
AfterTransaction_NoCompare(confirmations, answer, payment) ==
  IF answer.kind = "throws" THEN VerifyResult(FALSE, 0, ErrVerification)
  ELSE IF answer.kind = "null"
    THEN VerifyResult(FALSE, confirmations, ErrTxUnavailable)
  ELSE IF answer.fn = "garbage"
    THEN VerifyResult(FALSE, confirmations, ErrUnparseable)
  ELSE IF answer.fn \notin {"settlePayment", "settlePaymentWithPermit"}
    THEN VerifyResult(FALSE, confirmations, ErrUnexpectedCall)
  ELSE VerifyResult(TRUE, confirmations, <<>>)

\* lines 119-176: the transaction has been answered
AfterTransaction(confirmations, answer, payment) ==
  IF answer.kind = "throws" THEN VerifyResult(FALSE, 0, ErrVerification)
  ELSE IF answer.kind = "null"
    THEN VerifyResult(FALSE, confirmations, ErrTxUnavailable)
  ELSE IF answer.fn = "garbage"
    THEN VerifyResult(FALSE, confirmations, ErrUnparseable)
  ELSE IF answer.fn \notin {"settlePayment", "settlePaymentWithPermit"}
    THEN VerifyResult(FALSE, confirmations, ErrUnexpectedCall)
  ELSE IF ~answer.hasPayment
    THEN VerifyResult(FALSE, confirmations, ErrMissingArgs)
  ELSE IF ~calldataMatches(answer, payment)
    THEN VerifyResult(FALSE, confirmations, ErrMismatch)
  ELSE VerifyResult(TRUE, confirmations, <<>>)

(***************************************************************************)
(* Proof validation (s402Service.ts).  A validation either throws, returns *)
(* a context, or suspends on the settlement verifier it has started.       *)
(***************************************************************************)
NoPayment ==
  [owner |-> "", value |-> <<>>, deadline |-> 0, recipient |-> "", nonce |-> ""]

NoContext ==
  [attached |-> FALSE, owner |-> "", value |-> 0, payment |-> NoPayment,
   txHash |-> "", verifiedAsync |-> FALSE, verificationPromise |-> FALSE]

NoError == [name |-> "", message |-> <<>>]

Error(message) == [name |-> "Error", message |-> message]

ZodError == [name |-> "ZodError", message |-> ZodErrorMessage]

\* Faulty variant of SyncContext: the addresses of the payment are
\* normalised to lower case before it is put into the context
SyncContext_Normalises(proof) ==
  [attached |-> TRUE,
   owner |-> toLowerCase(proof.payment.owner),
   value |-> BigInt(proof.payment.value),
   payment |-> [proof.payment EXCEPT !.owner = toLowerCase(@),
                                     !.recipient = toLowerCase(@)],
   txHash |-> proof.txHash,
   verifiedAsync |-> FALSE,
   verificationPromise |-> FALSE]

\* s402Service.ts:175-180, the context of the synchronous validation
SyncContext(proof) ==
  [attached |-> TRUE,
   owner |-> proof.payment.owner,
   value |-> BigInt(proof.payment.value),
   payment |-> proof.payment,
   txHash |-> proof.txHash,
   verifiedAsync |-> FALSE,
   verificationPromise |-> FALSE]

\* s402Service.ts:245-252, the context of the asynchronous validation
AsyncContext(proof) ==
  [attached |-> TRUE,
   owner |-> proof.payment.owner,
   value |-> BigInt(proof.payment.value),
   payment |-> proof.payment,
   txHash |-> proof.txHash,
   verifiedAsync |-> TRUE,
   verificationPromise |-> TRUE]

\* kind: "throw" (error), "return" (context), "await" (suspended on the
\* verifier); started: verifyTransactionSettlement was called
Outcome(kind, error, context, started, steps) ==
  [kind |-> kind, error |-> error, context |-> context, started |-> started,
   steps |-> steps]

\* Faulty variant of validateSubmittedProof: the signature is verified
\* before the parameters are compared
validateSubmittedProof_SignatureFirst(proof, expectedPrice, expectedRecipient) ==
  LET errors == ParameterErrors(proof, expectedPrice, expectedRecipient) IN
  IF ~verifyEIP712Signature(proof.payment, proof.authSig, buildEIP712Domain)
    THEN Outcome("throw", Error(InvalidSignatureMessage), NoContext,
                 FALSE, <<"signature">>)
  ELSE IF Len(errors) > 0
    THEN Outcome("throw", Error(ProofValidationMessage(errors)), NoContext,
                 FALSE, <<"signature", "params">>)
  ELSE Outcome("await", NoError, NoContext, TRUE, <<"signature", "params">>)

\* s402Service.ts:93-156: validateSubmittedProof up to its await
validateSubmittedProof(proof, expectedPrice, expectedRecipient) ==
  LET errors == ParameterErrors(proof, expectedPrice, expectedRecipient) IN
  IF Len(errors) > 0
    THEN Outcome("throw", Error(ProofValidationMessage(errors)), NoContext,
                 FALSE, <<"params">>)
  ELSE IF ~verifyEIP712Signature(proof.payment, proof.authSig, buildEIP712Domain)
    THEN Outcome("throw", Error(InvalidSignatureMessage), NoContext,
                 FALSE, <<"params", "signature">>)
  ELSE Outcome("await", NoError, NoContext, TRUE, <<"params", "signature">>)

\* Faulty variant of validateSubmittedProofResume: the verifier's verdict is
\* not looked at
validateSubmittedProofResume_NoVerifiedCheck(proof, verification) ==
  Outcome("return", NoError, SyncContext(proof), FALSE, <<>>)

\* s402Service.ts:158-180: validateSubmittedProof after its await
validateSubmittedProofResume(proof, verification) ==
  IF ~verification.verified
    THEN Outcome("throw",
                 Error(TransactionVerificationMessage(verification.error)),
                 NoContext, FALSE, <<>>)
  ELSE Outcome("return", NoError, SyncContext(proof), FALSE, <<>>)

\* Faulty variant of validateSubmittedProofAsync: it awaits the verifier, as
\* the synchronous validation does
validateSubmittedProofAsync_Awaits(proof, expectedPrice, expectedRecipient) ==
  validateSubmittedProof(proof, expectedPrice, expectedRecipient)

\* s402Service.ts:186-253: validateSubmittedProofAsync (it never suspends)
validateSubmittedProofAsync(proof, expectedPrice, expectedRecipient) ==
  LET errors == ParameterErrors(proof, expectedPrice, expectedRecipient) IN
  IF Len(errors) > 0
    THEN Outcome("throw", Error(ProofValidationMessage(errors)), NoContext,
                 FALSE, <<"params">>)
  ELSE IF ~verifyEIP712Signature(proof.payment, proof.authSig, buildEIP712Domain)
    THEN Outcome("throw", Error(InvalidSignatureMessage), NoContext,
                 FALSE, <<"params", "signature">>)
  ELSE Outcome("return", NoError, AsyncContext(proof), TRUE,
               <<"params", "signature">>)

(***************************************************************************)
(* Challenge (s402Service.ts buildPaymentRequest, utils/http.ts            *)
(* buildPaymentRequired).                                                  *)
(***************************************************************************)
\* generateNonce: 32 random bytes, as hex
GeneratedNonces == {"0xn1", "0xn2"}

\* Faulty variant of buildPaymentRequest: the deadline is the current time,
\* without the window
buildPaymentRequest_NoWindow(price, recipient, owner, nonce) ==
  [payment |->
     [owner |-> IF owner = UNDEFINED THEN ZERO_ADDRESS ELSE owner,
      value |-> BigIntToString(price),
      deadline |-> now,
      recipient |-> recipient,
      nonce |-> nonce],
   domain |-> buildEIP712Domain]

\* s402Service.ts:44-68
buildPaymentRequest(price, recipient, owner, nonce) ==
  [payment |->
     [owner |-> IF owner = UNDEFINED THEN ZERO_ADDRESS ELSE owner,
      value |-> BigIntToString(price),
      deadline |-> now + DEADLINE_WINDOW,
      recipient |-> recipient,
      nonce |-> nonce],
   domain |-> buildEIP712Domain]

NoDomain ==
  [name |-> "", version |-> "", chainId |-> 0, verifyingContract |-> ""]

NoChallenge ==
  [facilitator |-> "", token |-> "", chainId |-> 0, routeKey |-> "",
   payment |-> NoPayment, domain |-> NoDomain]

Response(status, error, message, challenge) ==
  [status |-> status, error |-> error, message |-> message,
   challenge |-> challenge]

buildPaymentRequired(routeKey, built) ==
  Response(402, "PAYMENT_REQUIRED",
           <<"Payment", "required", "via", "S402", ".">>,
           [facilitator |-> S402_FACILITATOR, token |-> USD1_TOKEN,
            chainId |-> getChainId, routeKey |-> routeKey,
            payment |-> built.payment, domain |-> built.domain])

(***************************************************************************)
(* The catch block of requireS402 and requireS402Async (lines 80-110 and   *)
(* 208-238) and the global error handler (middleware/errorHandler.ts).     *)
(***************************************************************************)
\* Faulty variant of IsPaymentFailure: the third marker is shortened to its
\* first word
IsPaymentFailure_LooseMarker(message) ==
  \/ Includes(message, <<"validation", "failed">>)
  \/ Includes(message, <<"not", "settled">>)
  \/ Includes(message, <<"Invalid">>)

\* lines 88-92
IsPaymentFailure(message) ==
  \/ Includes(message, <<"validation", "failed">>)
  \/ Includes(message, <<"not", "settled">>)
  \/ Includes(message, <<"Invalid", "signature">>)

\* errorHandler: a ZodError is a 400, an error with a status keeps it (no
\* error of the gate has one), anything else is a 500
errorHandler(err) ==
  IF err.name = "ZodError"
    THEN Response(400, "VALIDATION_ERROR",
                  <<"Invalid", "request", "data">>, NoChallenge)
  ELSE Response(500, "INTERNAL_ERROR",
                <<"An", "internal", "server", "error", "occurred">>,
                NoChallenge)

\* forwards: the error went to next(error), and on to errorHandler
Caught(response, forwards) == [response |-> response, forwards |-> forwards]

catchBlock(error) ==
  IF IsPaymentFailure(error.message)
    THEN Caught(Response(403, "PAYMENT_VERIFICATION_FAILED", error.message,
                         NoChallenge), FALSE)
  ELSE IF error.name = "ZodError"
    THEN Caught(Response(400, "INVALID_PROOF_FORMAT",
                         <<"S402", "proof", "has", "invalid", "format">>,
                         NoChallenge), FALSE)
  ELSE Caught(errorHandler(error), TRUE)

(***************************************************************************)
(* Inputs: the chain client's answers.                                     *)
(***************************************************************************)
\* the block every answered receipt is in
ReceiptBlock == 1
\* MINIMUM_CONFIRMATIONS is drawn from 1 .. MaxMinConf
MaxMinConf == 2

\* env.ts loadConfig: the configurations the server is started with
Configs ==
  [CHAIN_ID : ChainIds, MINIMUM_CONFIRMATIONS : 1..MaxMinConf,
   PRICE_TABLE_JSON : {PriceTable}, RECIPIENT : {RECIPIENT}]

PaymentSettled(from, to, nonce, value, platformFee) ==
  [kind |-> "event", name |-> "PaymentSettled", from |-> from, to |-> to,
   nonce |-> nonce, value |-> value, platformFee |-> platformFee]

\* a log of another contract (parseLog throws or returns null)
ForeignLog ==
  [kind |-> "foreign", name |-> "", from |-> "", to |-> "", nonce |-> "",
   value |-> 0, platformFee |-> 0]

\* another event of the facilitator
OtherEvent ==
  [kind |-> "event", name |-> "FeesWithdrawn", from |-> "0xA1", to |-> "0xC3",
   nonce |-> "0xn1", value |-> 5, platformFee |-> 0]

LogLists ==
  {<<>>,
   <<ForeignLog>>,
   <<PaymentSettled("0xA1", "0xC3", "0xn1", 5, 0)>>,
   <<PaymentSettled("0xA1", "0xC3", "0xn1", 4, 1)>>,
   <<PaymentSettled("0xA1", "0xC3", "0xn1", 7, 0)>>,
   <<PaymentSettled("0xA1", "0xC3", "0xn1", 4, 0)>>,
   <<PaymentSettled("0xB2", "0xC3", "0xn1", 5, 0)>>,
   <<PaymentSettled("0xA1", "0xD4", "0xn1", 5, 0)>>,
   <<PaymentSettled("0xA1", "0xC3", "0xn2", 5, 0)>>,
   <<ForeignLog, OtherEvent, PaymentSettled("0xA1", "0xC3", "0xn1", 5, 0)>>}

Receipt(status, to, logs) ==
  [kind |-> "receipt", blockNumber |-> ReceiptBlock, status |-> status,
   to |-> to, logs |-> logs]

ReceiptAnswers ==
  {[kind |-> "throws", blockNumber |-> 0, status |-> 0, to |-> "", logs |-> <<>>],
   [kind |-> "null", blockNumber |-> 0, status |-> 0, to |-> "", logs |-> <<>>]}
  \cup {Receipt(1, "0xF0", logs) : logs \in LogLists}
  \cup {Receipt(0, "0xF0", <<PaymentSettled("0xA1", "0xC3", "0xn1", 5, 0)>>),
        Receipt(1, "0x99", <<PaymentSettled("0xA1", "0xC3", "0xn1", 5, 0)>>),
        Receipt(1, "null", <<>>),
        Receipt(0, "0x99", <<>>)}

BlockNumberAnswers ==
  {[kind |-> "throws", n |-> 0]}
  \cup {[kind |-> "number", n |-> n] : n \in 0..MaxHead}

Transaction(fn, payment, from) ==
  [kind |-> "tx", fn |-> fn, hasPayment |-> TRUE, payment |-> payment,
   from |-> from]

\* the payment struct of a settlement call (value is a uint256)
TxPayment(owner, recipient, value, deadline, nonce) ==
  [owner |-> owner, recipient |-> recipient, value |-> value,
   deadline |-> deadline, nonce |-> nonce]

NoTxPayment == TxPayment("", "", 0, 0, "")

TransactionAnswers ==
  {[kind |-> "throws", fn |-> "", hasPayment |-> FALSE,
    payment |-> NoTxPayment, from |-> ""],
   [kind |-> "null", fn |-> "", hasPayment |-> FALSE,
    payment |-> NoTxPayment, from |-> ""],
   [kind |-> "tx", fn |-> "garbage", hasPayment |-> FALSE,
    payment |-> NoTxPayment, from |-> "0xA1"],
   [kind |-> "tx", fn |-> "withdrawFees", hasPayment |-> FALSE,
    payment |-> NoTxPayment, from |-> "0xA1"]}
  \cup {Transaction("settlePayment",
                    TxPayment("0xA1", "0xC3", v, d, "0xn1"), "0xA1") :
          v \in {5, 7}, d \in {Now0 + 1, Now0 + DEADLINE_WINDOW}}
  \cup {Transaction("settlePaymentWithPermit",
                    TxPayment("0xA1", "0xC3", 5, Now0 + DEADLINE_WINDOW, "0xn1"),
                    "0xA1"),
        Transaction("settlePayment",
                    TxPayment("0xA1", "0xC3", 5, Now0 + DEADLINE_WINDOW, "0xn1"),
                    "0xB2"),
        Transaction("settlePayment",
                    TxPayment("0xA1", "0xC3", 5, Now0 + DEADLINE_WINDOW, "0xn2"),
                    "0xA1"),
        Transaction("settlePayment",
                    TxPayment("0xB2", "0xC3", 5, Now0 + DEADLINE_WINDOW, "0xn1"),
                    "0xA1"),
        Transaction("settlePayment",
                    TxPayment("0xA1", "0xD4", 5, Now0 + DEADLINE_WINDOW, "0xn1"),
                    "0xA1"),
        Transaction("settlePayment",
                    TxPayment("0xa1", "0xc3", 5, Now0 + DEADLINE_WINDOW, "0xn1"),
                    "0xa1")}

(***************************************************************************)
(* Inputs: the requests.  The schema-valid proofs are a product over the   *)
(* fields parameter validation and the signature check read; the           *)
(* schema-invalid ones break one field of a valid proof each.              *)
(***************************************************************************)
Domain(chainId) ==
  [name |-> "S402Facilitator", version |-> "1", chainId |-> chainId,
   verifyingContract |-> S402_FACILITATOR]

ValidPayments ==
  [owner : {"0xA1", "0xa1", "0xa1BAD"},
   value : {<<"5">>, <<"7">>, <<"0", "5">>},
   deadline : {Now0 + 1, Now0 + DEADLINE_WINDOW},
   recipient : {"0xC3", "0xc3", "0xD4"},
   nonce : {"0xn1"}]

Genuine(p) == signPaymentAuth("k1", Domain(56), p)

\* the signatures submitted with payment p: by the owner's key, by another
\* key, under another chain's domain, over p with another nonce, and the
\* owner's signature with r, s or v changed
SignaturesFor(p) ==
  {Genuine(p),
   signPaymentAuth("k2", Domain(56), p),
   signPaymentAuth("k1", Domain(97), p),
   signPaymentAuth("k1", Domain(56), [p EXCEPT !.nonce = "0xn2"]),
   [Genuine(p) EXCEPT !.r = TamperedR],
   [Genuine(p) EXCEPT !.r = ZeroR],
   [Genuine(p) EXCEPT !.s = "0xs2"],
   [Genuine(p) EXCEPT !.v = 28]}

Proof(payment, permitSig, authSig, txHash) ==
  [payment |-> payment, permitSig |-> permitSig, authSig |-> authSig,
   txHash |-> txHash]

BasePayment ==
  [owner |-> "0xA1", value |-> <<"5">>, deadline |-> Now0 + DEADLINE_WINDOW,
   recipient |-> "0xC3", nonce |-> "0xn1"]

BaseProof == Proof(BasePayment, AbsentSig, Genuine(BasePayment), "0xt1")

SchemaValidProofs ==
  UNION {{Proof(p, AbsentSig, sig, h) :
            sig \in SignaturesFor(p), h \in {UNDEFINED, "0xt1"}} :
         p \in ValidPayments}
  \cup {[BaseProof EXCEPT !.permitSig = Genuine(BasePayment)]}

SchemaInvalidProofs ==
  {[BaseProof EXCEPT !.payment.owner = "0xg"],
   [BaseProof EXCEPT !.payment.value = <<"x">>],
   [BaseProof EXCEPT !.payment.value = <<>>],
   [BaseProof EXCEPT !.payment.value = <<"5", ".", "0">>],
   [BaseProof EXCEPT !.payment.deadline = 0],
   [BaseProof EXCEPT !.payment.deadline = -1],
   [BaseProof EXCEPT !.payment.recipient = "0xg"],
   [BaseProof EXCEPT !.payment.nonce = "0xn"],
   [BaseProof EXCEPT !.authSig.v = 26],
   [BaseProof EXCEPT !.authSig.v = 29],
   [BaseProof EXCEPT !.authSig.r = MalformedR],
   [BaseProof EXCEPT !.authSig.s = "0xs"],
   [BaseProof EXCEPT !.txHash = "0xt"],
   [BaseProof EXCEPT !.txHash = UNDEFINED, !.authSig.v = 29],
   [BaseProof EXCEPT !.permitSig = [Genuine(BasePayment) EXCEPT !.v = 26]]}

Modes == {"sync", "async", "optional"}

\* body.owner and body.s402Proof of the request; at is the server's clock
\* when the request is handled
Request(mode, routeKey, owner, hasProof, proof) ==
  [mode |-> mode, routeKey |-> routeKey, owner |-> owner,
   hasProof |-> hasProof, s402Proof |-> proof, at |-> 0]

NoProof == Proof(NoPayment, AbsentSig, AbsentSig, UNDEFINED)

NoRequest == Request("", "", UNDEFINED, FALSE, NoProof)

Requests ==
  {Request(m, k, o, FALSE, NoProof) :
     m \in Modes, k \in RouteKeys, o \in {UNDEFINED, "0xA1"}}
  \cup {Request(m, k, UNDEFINED, TRUE, pr) :
          m \in Modes, k \in RouteKeys,
          pr \in SchemaValidProofs \cup SchemaInvalidProofs}

(***************************************************************************)
(* State.  One record of Express state per request: the request, where    *)
(* its middleware stands, the responses sent on it, the calls of next()    *)
(* and of next(error), req.s402, the settlement verifier started for it,   *)
(* the pipeline steps performed and the decisive log entries.              *)
(***************************************************************************)
VARIABLES request, pc, responses, nextCalls, forwarded, s402, task, steps, logs

\* probe: the arguments and results of verifyEIP712Signature when it is
\* exercised on its own (SigSpec); the gate leaves it alone
VARIABLES probe

\* chain: the chain behind the provider, when its answers are taken from one
\* chain that only grows (ChainSpec); client: an S402Client making a
\* request; ledger: the requests with a proof answered so far.  The gate
\* reads none of them
VARIABLES chain, client, ledger

world == <<chain, client, ledger>>

harness == <<probe, world>>

vars ==
  <<config, now, request, pc, responses, nextCalls, forwarded, s402, task,
    steps, logs, probe, chain, client, ledger>>

Reqs == {1}

NoReceipt == [kind |-> "null", blockNumber |-> 0, status |-> 0, to |-> "", logs |-> <<>>]

\* no answer of getBlockNumber, of getTransaction
NoBlockNumber == [kind |-> "none", n |-> 0]

NoTransaction ==
  [kind |-> "none", fn |-> "", hasPayment |-> FALSE, payment |-> NoTxPayment,
   from |-> ""]

\* a run of verifyTransactionSettlement: where it stands, its arguments,
\* the answers it has got and its result
NoTask ==
  [stage |-> "none", txHash |-> "", payment |-> NoPayment,
   receipt |-> NoReceipt, block |-> NoBlockNumber,
   transaction |-> NoTransaction, result |-> Pending]

\* the state of request i, as one record
Cur(i) ==
  [request |-> request[i], pc |-> pc[i], responses |-> responses[i],
   nextCalls |-> nextCalls[i], forwarded |-> forwarded[i], s402 |-> s402[i],
   task |-> task[i], steps |-> steps[i], logs |-> logs[i]]

Set(i, st) ==
  /\ request' = [request EXCEPT ![i] = st.request]
  /\ pc' = [pc EXCEPT ![i] = st.pc]
  /\ responses' = [responses EXCEPT ![i] = st.responses]
  /\ nextCalls' = [nextCalls EXCEPT ![i] = st.nextCalls]
  /\ forwarded' = [forwarded EXCEPT ![i] = st.forwarded]
  /\ s402' = [s402 EXCEPT ![i] = st.s402]
  /\ task' = [task EXCEPT ![i] = st.task]
  /\ steps' = [steps EXCEPT ![i] = st.steps]
  /\ logs' = [logs EXCEPT ![i] = st.logs]

\* no request has arrived
GateIdle ==
  /\ request = [i \in Reqs |-> NoRequest]
  /\ pc = [i \in Reqs |-> "idle"]
  /\ responses = [i \in Reqs |-> <<>>]
  /\ nextCalls = [i \in Reqs |-> 0]
  /\ forwarded = [i \in Reqs |-> 0]
  /\ s402 = [i \in Reqs |-> NoContext]
  /\ task = [i \in Reqs |-> NoTask]
  /\ steps = [i \in Reqs |-> <<>>]
  /\ logs = [i \in Reqs |-> <<>>]

NoProbe ==
  [stage |-> "none", signed |-> NoPayment, payment |-> NoPayment,
   authSig |-> AbsentSig, domain |-> NoDomain, signedVerdict |-> FALSE,
   verdict |-> FALSE]

\* a settlement transaction: not sent; sent and pending (block 0); mined
NoSettlement ==
  [sent |-> FALSE, block |-> 0, status |-> 0, emits |-> FALSE, fn |-> "",
   payment |-> NoTxPayment, from |-> "", permitSig |-> AbsentSig]

\* the head, the token allowance the owner has granted to the facilitator,
\* the settlement transaction and how many transactions were submitted
NoChain ==
  [head |-> 0, allowance |-> 0, submissions |-> 0, tx |-> NoSettlement]

NoClient ==
  [stage |-> "none", key |-> "", asyncMode |-> FALSE, mode |-> "",
   routeKey |-> "", challenge |-> NoChallenge, proof |-> NoProof,
   fetches |-> 0]

NoWorld ==
  /\ chain = NoChain
  /\ client = NoClient
  /\ ledger = <<>>

Init ==
  /\ config \in Configs
  /\ now = Now0
  /\ GateIdle
  /\ probe = NoProbe
  /\ NoWorld

(***************************************************************************)
(* The middlewares (middleware/s402Middleware.ts).  JavaScript runs the    *)
(* code between two suspensions without interleaving, so a middleware is   *)
(* one step from the request's arrival to its first suspension on the      *)
(* chain client (or to its end), and one step per answer after that.       *)
(***************************************************************************)
\* verifyTransactionSettlement(proof.txHash, proof.payment) is called: it
\* runs up to its first await, on getTransactionReceipt
StartTask(st, proof) ==
  [st EXCEPT !.task = [stage |-> "receipt", txHash |-> proof.txHash,
                       payment |-> proof.payment, receipt |-> NoReceipt,
                       block |-> NoBlockNumber,
                       transaction |-> NoTransaction, result |-> Pending],
             !.steps = Append(@, "getTransactionReceipt")]

\* lines 69-79, 171-207, 261-264: req.s402 = context; next()
GrantStep(st, context) ==
  [st EXCEPT !.s402 = context,
             !.nextCalls = @ + 1,
             !.pc = "handler",
             !.logs = Append(@, <<"info", "granting API access">>)]

\* Faulty variant of CatchStep: the catch block answers without
\* returning, and goes on to next(error)
CatchStep_FallsThrough(st, error) ==
  LET c == catchBlock(error) IN
  [st EXCEPT !.responses = IF c.forwards THEN Append(@, c.response)
                           ELSE Append(Append(@, c.response),
                                       errorHandler(error)),
             !.forwarded = @ + 1,
             !.pc = "done",
             !.logs = Append(@, <<"error", "S402 verification failed">>)]

\* lines 80-110 and 208-238: the catch block answers, or forwards the
\* error to the error handler, which answers
CatchStep(st, error) ==
  LET c == catchBlock(error) IN
  [st EXCEPT !.responses = Append(@, c.response),
             !.forwarded = @ + (IF c.forwards THEN 1 ELSE 0),
             !.pc = "done",
             !.logs = Append(@, <<"error", "S402 verification failed">>)]

\* Faulty variant of OptionalCatchStep: the failure is answered as
\* requireS402 answers it
OptionalCatchStep_Rejects(st) ==
  CatchStep(st, Error(InvalidSignatureMessage))

\* lines 265-269: optionalS402 proceeds without a context
OptionalCatchStep(st) ==
  [st EXCEPT !.nextCalls = @ + 1,
             !.pc = "handler",
             !.logs = Append(@, <<"warn", "Optional S402 validation failed">>)]

\* the middleware after an outcome of the validation it awaits
Continue(st, out) ==
  LET st1 == [st EXCEPT !.steps = @ \o out.steps]
      st2 == IF out.started THEN StartTask(st1, st.request.s402Proof) ELSE st1
  IN CASE out.kind = "throw" ->
            IF st.request.mode = "optional" THEN OptionalCatchStep(st2)
            ELSE CatchStep(st2, out.error)
       [] out.kind = "return" -> GrantStep(st2, out.context)
       [] out.kind = "await" -> [st2 EXCEPT !.pc = "awaiting"]

Arrived(st, r) ==
  [st EXCEPT !.request = [r EXCEPT !.at = now]]

\* lines 27-48 and 132-153: the 402 challenge
ChallengeStep(st, nonce) ==
  LET r == st.request
      price == getPriceForRoute(r.routeKey)
      recipient == getRecipientForRoute(r.routeKey)
      built == buildPaymentRequest(price, recipient, r.owner, nonce)
  IN [st EXCEPT !.responses = Append(@, buildPaymentRequired(r.routeKey, built)),
                !.pc = "done",
                !.steps = Append(@, "challenge")]

\* Faulty variant of proofMissing: a proof in the body is not looked for
proofMissing_Always(r) == TRUE

\* line 27: if (!proof)
proofMissing(r) == ~r.hasProof

\* Faulty variant of requireS402Step: the proof is validated against the
\* price and recipient quoted in the challenge the client holds
requireS402Step_QuotedPrice(st, nonce) ==
  LET r == st.request
      price == BigInt(client.challenge.payment.value)
      recipient == client.challenge.payment.recipient
      parsed == [st EXCEPT !.steps = Append(@, "schema")]
  IN IF proofMissing(r) THEN ChallengeStep(st, nonce)
     ELSE IF ~s402ProofSchema(r.s402Proof) THEN CatchStep(parsed, ZodError)
     ELSE Continue(parsed, validateSubmittedProof(r.s402Proof, price, recipient))

\* Faulty variant of requireS402Step: the gate remembers the transaction
\* hashes it has granted and refuses a proof that carries one of them
requireS402Step_RemembersHashes(st, nonce) ==
  LET r == st.request
      price == getPriceForRoute(r.routeKey)
      recipient == getRecipientForRoute(r.routeKey)
      parsed == [st EXCEPT !.steps = Append(@, "schema")]
      used == \E k \in 1..Len(ledger) :
                /\ ledger[k].granted
                /\ ledger[k].request.s402Proof.txHash = r.s402Proof.txHash
  IN IF proofMissing(r) THEN ChallengeStep(st, nonce)
     ELSE IF ~s402ProofSchema(r.s402Proof) THEN CatchStep(parsed, ZodError)
     ELSE IF used
       THEN CatchStep(parsed, Error(<<"S402", "proof", "validation", "failed",
                                      ":", "txHash", "already", "used">>))
     ELSE Continue(parsed, validateSubmittedProof(r.s402Proof, price, recipient))

\* Faulty variant of requireS402Step: the gate keeps the transaction
\* hashes of the requests it has granted and refuses a proof that carries
\* the hash of another granted request
requireS402Step_SharedHashes(st, nonce) ==
  LET r == st.request
      price == getPriceForRoute(r.routeKey)
      recipient == getRecipientForRoute(r.routeKey)
      parsed == [st EXCEPT !.steps = Append(@, "schema")]
      used == \E j \in DOMAIN request :
                /\ request[j] # r
                /\ nextCalls[j] > 0
                /\ request[j].s402Proof.txHash = r.s402Proof.txHash
  IN IF proofMissing(r) THEN ChallengeStep(st, nonce)
     ELSE IF ~s402ProofSchema(r.s402Proof) THEN CatchStep(parsed, ZodError)
     ELSE IF used
       THEN CatchStep(parsed, Error(<<"S402", "proof", "validation", "failed",
                                      ":", "txHash", "already", "used">>))
     ELSE Continue(parsed, validateSubmittedProof(r.s402Proof, price, recipient))

\* requireS402, lines 13-112, up to its await
requireS402Step(st, nonce) ==
  LET r == st.request
      price == getPriceForRoute(r.routeKey)
      recipient == getRecipientForRoute(r.routeKey)
      parsed == [st EXCEPT !.steps = Append(@, "schema")]
  IN IF proofMissing(r) THEN ChallengeStep(st, nonce)
     ELSE IF ~s402ProofSchema(r.s402Proof) THEN CatchStep(parsed, ZodError)
     ELSE Continue(parsed, validateSubmittedProof(r.s402Proof, price, recipient))

\* requireS402Async, lines 118-240
requireS402AsyncStep(st, nonce) ==
  LET r == st.request
      price == getPriceForRoute(r.routeKey)
      recipient == getRecipientForRoute(r.routeKey)
      parsed == [st EXCEPT !.steps = Append(@, "schema")]
  IN IF proofMissing(r) THEN ChallengeStep(st, nonce)
     ELSE IF ~s402ProofSchema(r.s402Proof) THEN CatchStep(parsed, ZodError)
     ELSE Continue(parsed,
                   validateSubmittedProofAsync(r.s402Proof, price, recipient))

\* optionalS402, lines 245-271, up to its await
optionalS402Step(st) ==
  LET r == st.request
      price == getPriceForRoute(r.routeKey)
      recipient == getRecipientForRoute(r.routeKey)
      parsed == [st EXCEPT !.steps = Append(@, "schema")]
  IN IF proofMissing(r)
       THEN [st EXCEPT !.nextCalls = @ + 1, !.pc = "handler"]
     ELSE IF ~s402ProofSchema(r.s402Proof) THEN OptionalCatchStep(parsed)
     ELSE Continue(parsed, validateSubmittedProof(r.s402Proof, price, recipient))

\* lines 183-205: the callbacks requireS402Async put on the promise
BackgroundLog(result) ==
  IF result.verified
    THEN <<"info", "Background blockchain verification completed successfully">>
    ELSE <<"warn", "Background blockchain verification failed">>

\* Faulty variant of VerifierResolved: a failed background verification
\* answers the granted request with the catch block's response
VerifierResolved_Revokes(st, result) ==
  LET st1 == [st EXCEPT !.task.stage = "resolved", !.task.result = result]
      st2 == IF st.pc = "awaiting"
               THEN Continue(st1, validateSubmittedProofResume(
                                    st.request.s402Proof, result))
               ELSE st1
  IN IF st.s402.verificationPromise
       THEN IF result.verified
              THEN [st2 EXCEPT !.logs = Append(@, BackgroundLog(result))]
              ELSE CatchStep(st2, Error(TransactionVerificationMessage(result.error)))
       ELSE st2

\* verifyTransactionSettlement resolves: the validation suspended on it
\* resumes, and the callbacks on the promise run
VerifierResolved(st, result) ==
  LET st1 == [st EXCEPT !.task.stage = "resolved", !.task.result = result]
      st2 == IF st.pc = "awaiting"
               THEN Continue(st1, validateSubmittedProofResume(
                                    st.request.s402Proof, result))
               ELSE st1
  IN IF st.s402.verificationPromise
       THEN [st2 EXCEPT !.logs = Append(@, BackgroundLog(result))]
       ELSE st2

IsPending(result) == result.error = Pending.error

(***************************************************************************)
(* Actions.                                                                *)
(***************************************************************************)
RequestsOf(mode) == {r \in Requests : r.mode = mode}

requireS402(i) ==
  /\ pc[i] = "idle"
  /\ \E r \in RequestsOf("sync"), nonce \in GeneratedNonces :
       Set(i, requireS402Step(Arrived(Cur(i), r), nonce))
  /\ UNCHANGED <<config, now, harness>>

requireS402Async(i) ==
  /\ pc[i] = "idle"
  /\ \E r \in RequestsOf("async"), nonce \in GeneratedNonces :
       Set(i, requireS402AsyncStep(Arrived(Cur(i), r), nonce))
  /\ UNCHANGED <<config, now, harness>>

optionalS402(i) ==
  /\ pc[i] = "idle"
  /\ \E r \in RequestsOf("optional") :
       Set(i, optionalS402Step(Arrived(Cur(i), r)))
  /\ UNCHANGED <<config, now, harness>>

\* Faulty variant of OnReceipt: a transaction that is not found is looked
\* up once more
OnReceipt_Retries(st, answer) ==
  LET result == AfterReceipt(answer)
      runs == Cardinality({k \in 1..Len(st.steps) :
                             st.steps[k] = "getTransactionReceipt"})
  IN IF IsPending(result)
       THEN [st EXCEPT !.task.stage = "block",
                       !.task.receipt = answer,
                       !.steps = Append(@, "getBlockNumber")]
     ELSE IF answer.kind = "null" /\ runs < 2
       THEN StartTask(st, st.request.s402Proof)
     ELSE VerifierResolved([st EXCEPT !.task.receipt = answer], result)

\* the request's state once provider.getTransactionReceipt has answered
OnReceipt(st, answer) ==
  LET result == AfterReceipt(answer) IN
  IF IsPending(result)
    THEN [st EXCEPT !.task.stage = "block",
                    !.task.receipt = answer,
                    !.steps = Append(@, "getBlockNumber")]
    ELSE VerifierResolved([st EXCEPT !.task.receipt = answer], result)

\* the request's state once provider.getBlockNumber has answered
OnBlockNumber(st, answer) ==
  LET result == AfterBlockNumber(st.task.receipt, answer, st.task.payment) IN
  IF IsPending(result)
    THEN [st EXCEPT !.task.stage = "tx",
                    !.task.block = answer,
                    !.task.result = result,
                    !.steps = Append(@, "getTransaction")]
    ELSE VerifierResolved([st EXCEPT !.task.block = answer], result)

\* the request's state once provider.getTransaction has answered
OnTransaction(st, answer) ==
  VerifierResolved([st EXCEPT !.task.transaction = answer],
                   AfterTransaction(st.task.result.confirmations, answer,
                                    st.task.payment))

\* provider.getTransactionReceipt answers (blockchainService.ts:23-31)
ReceiptAnswered(i) ==
  /\ task[i].stage = "receipt"
  /\ \E answer \in ReceiptAnswers : Set(i, OnReceipt(Cur(i), answer))
  /\ UNCHANGED <<config, now, harness>>

\* provider.getBlockNumber answers (blockchainService.ts:31-119)
BlockNumberAnswered(i) ==
  /\ task[i].stage = "block"
  /\ \E answer \in BlockNumberAnswers : Set(i, OnBlockNumber(Cur(i), answer))
  /\ UNCHANGED <<config, now, harness>>

\* provider.getTransaction answers (blockchainService.ts:119-176)
TransactionAnswered(i) ==
  /\ task[i].stage = "tx"
  /\ \E answer \in TransactionAnswers : Set(i, OnTransaction(Cur(i), answer))
  /\ UNCHANGED <<config, now, harness>>

\* the protected handler (controllers/toolController.ts) answers
HandlerResponds(i) ==
  /\ pc[i] = "handler"
  /\ Set(i, [Cur(i) EXCEPT !.responses = Append(@, Response(200, "", <<>>, NoChallenge)),
                           !.pc = "done"])
  /\ UNCHANGED <<config, now, harness>>

\* a second passes
Tick ==
  /\ now < Now0 + MaxTicks
  /\ now' = now + 1
  /\ UNCHANGED <<config, request, pc, responses, nextCalls, forwarded, s402,
                 task, steps, logs, harness>>

Next ==
  \/ \E i \in Reqs : requireS402(i)
  \/ \E i \in Reqs : requireS402Async(i)
  \/ \E i \in Reqs : optionalS402(i)
  \/ \E i \in Reqs : ReceiptAnswered(i)
  \/ \E i \in Reqs : BlockNumberAnswered(i)
  \/ \E i \in Reqs : TransactionAnswered(i)
  \/ \E i \in Reqs : HandlerResponds(i)
  \/ Tick

Spec == Init /\ [][Next]_vars

(***************************************************************************)
(* verifyEIP712Signature on its own.  A payment is signed (or a signature  *)
(* over it is forged), then the function is applied to the signed payment  *)
(* and to a submitted payment that is the signed one or differs from it in *)
(* one field, under a domain of the caller's choice.                       *)
(***************************************************************************)
gate == <<request, pc, responses, nextCalls, forwarded, s402, task, steps, logs>>

\* loadConfig's defaults (env.ts:128, 134)
DefaultConfig ==
  [CHAIN_ID |-> 56, MINIMUM_CONFIRMATIONS |-> 2,
   PRICE_TABLE_JSON |-> PriceTable, RECIPIENT |-> RECIPIENT]

OtherContract == [Domain(56) EXCEPT !.verifyingContract = "0xD4"]

SigDomains == {Domain(56), Domain(97), OtherContract}

SignedPayments ==
  [owner : {"0xA1", "0xa1BAD", "0xB2"},
   value : {<<"5">>, <<"0", "5">>},
   deadline : {Now0 + DEADLINE_WINDOW},
   recipient : {"0xC3"},
   nonce : {"0xn1"}]

\* q, and q with one field rewritten
OneFieldVariants(q) ==
  {q}
  \cup {[q EXCEPT !.owner = o] : o \in {"0xA1", "0xa1", "0xa1BAD", "0xB2"}}
  \cup {[q EXCEPT !.value = v] : v \in {<<"5">>, <<"0", "5">>, <<"7">>}}
  \cup {[q EXCEPT !.deadline = d] : d \in {Now0 + 1, Now0 + DEADLINE_WINDOW}}
  \cup {[q EXCEPT !.recipient = r] : r \in {"0xC3", "0xc3", "0xD4"}}
  \cup {[q EXCEPT !.nonce = n] : n \in {"0xn1", "0xn2"}}

\* the signatures presented with q: made by the SDK with either key under
\* each domain, made over a message naming another spender, and the
\* owner's signature with r, s or v changed
SignaturesOver(q) ==
  {signPaymentAuth(k, d, q) : k \in Keys, d \in SigDomains}
  \cup {signTypedData(k, Domain(56),
                      [buildAuthTypedData(Domain(56), q)
                         EXCEPT !.spender = JUNK_ADDRESS]) : k \in Keys}
  \cup {[signPaymentAuth("k1", Domain(56), q) EXCEPT !.r = TamperedR],
        [signPaymentAuth("k1", Domain(56), q) EXCEPT !.r = ZeroR],
        [signPaymentAuth("k1", Domain(56), q) EXCEPT !.s = "0xs2"],
        [signPaymentAuth("k1", Domain(56), q) EXCEPT !.v = 28]}

Probes ==
  UNION {{[stage |-> "drawn", signed |-> q, payment |-> p, authSig |-> sig,
           domain |-> d, signedVerdict |-> FALSE, verdict |-> FALSE] :
            p \in OneFieldVariants(q), sig \in SignaturesOver(q),
            d \in SigDomains} :
         q \in SignedPayments}

SigInit ==
  /\ config = DefaultConfig
  /\ now = Now0
  /\ GateIdle
  /\ NoWorld
  /\ probe \in Probes

\* verifyEIP712Signature(signed payment, signature, domain)
VerifySigned ==
  /\ probe.stage = "drawn"
  /\ probe' = [probe EXCEPT
                 !.stage = "first",
                 !.signedVerdict =
                    verifyEIP712Signature(probe.signed, probe.authSig,
                                          probe.domain)]
  /\ UNCHANGED <<config, now, gate, world>>

\* verifyEIP712Signature(submitted payment, signature, domain)
VerifySubmitted ==
  /\ probe.stage = "first"
  /\ probe' = [probe EXCEPT
                 !.stage = "both",
                 !.verdict =
                    verifyEIP712Signature(probe.payment, probe.authSig,
                                          probe.domain)]
  /\ UNCHANGED <<config, now, gate, world>>

SigNext == VerifySigned \/ VerifySubmitted

SigSpec == SigInit /\ [][SigNext]_vars

(***************************************************************************)
(* The SDK client against the gate, over one chain (sdk/client.ts).  The   *)
(* client asks without a proof, signs the challenge, sends the settlement  *)
(* transaction, waits for it (unless asyncMode) and asks again with the    *)
(* proof; the proof may then be presented again.  The provider's answers   *)
(* are read from the chain: blocks are only added, a mined transaction     *)
(* stays where it is.                                                      *)
(***************************************************************************)
\* the requests with a proof that are followed
MaxSubmits == 2

\* the fetches of one call of S402Client.request that are followed
MaxFetches == 5

\* client.ts:55: this.maxRetries = options.maxRetries || 3
maxRetries == 3

\* client.ts:101-117: what request() does with the response to its fetch:
\* on 402 it goes on to sign and settle, an ok response is returned, any
\* other status is thrown as an error
afterResponse(status) ==
  IF status = 402 THEN "challenged"
  ELSE IF status \in 200..299 THEN "retried"
  ELSE "failed"

\* the state of a request that has not arrived
FreshSlot ==
  [request |-> NoRequest, pc |-> "idle", responses |-> <<>>, nextCalls |-> 0,
   forwarded |-> 0, s402 |-> NoContext, task |-> NoTask, steps |-> <<>>,
   logs |-> <<>>]

\* Faulty variant of Serve: a proof is refused unless its nonce and
\* deadline are those of the challenge that was issued
Serve_IssuedOnly(r, nonce) ==
  IF /\ r.hasProof
     /\ \/ r.s402Proof.payment.nonce # client.challenge.payment.nonce
        \/ r.s402Proof.payment.deadline # client.challenge.payment.deadline
    THEN CatchStep(Arrived(FreshSlot, r),
                   Error(ProofValidationMessage(<<ErrDeadline>>)))
  ELSE IF r.mode = "sync" THEN requireS402Step(Arrived(FreshSlot, r), nonce)
  ELSE requireS402AsyncStep(Arrived(FreshSlot, r), nonce)

\* routes/toolRoutes.ts:15-20: the route's middleware receives request r
Serve(r, nonce) ==
  IF r.mode = "sync" THEN requireS402Step(Arrived(FreshSlot, r), nonce)
  ELSE requireS402AsyncStep(Arrived(FreshSlot, r), nonce)

\* the hash of the client's settlement transaction
SettlementHash == "0xt1"

Clients ==
  [stage : {"start"}, key : Keys, asyncMode : BOOLEAN,
   mode : {"sync", "async"}, routeKey : RouteKeys,
   challenge : {NoChallenge}, proof : {NoProof}, fetches : {0}]

ChainInit ==
  /\ config \in Configs
  /\ now = Now0
  /\ GateIdle
  /\ probe = NoProbe
  /\ chain \in {[NoChain EXCEPT !.allowance = a] : a \in {0, 7}}
  /\ client \in Clients
  /\ ledger = <<>>

\* client.ts:76-110: the first fetch carries no proof; it is answered 402
ClientRequests ==
  /\ client.stage = "start"
  /\ \E nonce \in GeneratedNonces :
       LET st == Serve(Request(client.mode, client.routeKey, UNDEFINED, FALSE,
                               NoProof), nonce)
       IN /\ Set(1, st)
          /\ client' = [client EXCEPT !.stage = "challenged",
                                      !.challenge = st.responses[1].challenge,
                                      !.fetches = @ + 1]
  /\ UNCHANGED <<config, now, probe, chain, ledger>>

\* client.ts:19
BNB_CHAIN_ID == 56

\* payments.ts checkAllowance: token.allowance(owner, facilitator)
checkAllowance == chain.allowance

\* Faulty variant of settlementCall: an allowance equal to the value is
\* taken as insufficient
settlementCall_StrictlyMore(allowance, value) ==
  IF allowance > value THEN "settlePayment" ELSE "settlePaymentWithPermit"

\* client.ts:144, 162: settlePayment when the allowance covers the value,
\* settlePaymentWithPermit otherwise
settlementCall(allowance, value) ==
  IF allowance >= value THEN "settlePayment" ELSE "settlePaymentWithPermit"

\* Faulty variant of afterSubmission: the sync client does not wait either
afterSubmission_NeverWaits(asyncMode) == "ready"

\* client.ts:152-161, 180-189: in async mode the hash of the submitted
\* transaction is taken at once, in sync mode tx.wait(1) comes first
afterSubmission(asyncMode) == IF asyncMode THEN "ready" ELSE "waiting"

\* Faulty variant of injectOwner: the payment of the first challenge the
\* client ever received is kept and used again
injectOwner_FirstChallenge(paymentReq, owner) ==
  IF ledger # <<>> /\ ledger[1].request.hasProof
    THEN ledger[1].request.s402Proof.payment
    ELSE [paymentReq.payment EXCEPT !.owner = owner]

\* client.ts:117-124: the payment of the 402 response just received, with
\* the signer's address as owner
injectOwner(paymentReq, owner) ==
  [paymentReq.payment EXCEPT !.owner = owner]

\* client.ts:112-190: the owner is put into the challenge's payment, the
\* authorization is signed under the challenge's domain and the settlement
\* is sent (settlePayment with allowance, settlePaymentWithPermit without)
ClientSettles ==
  /\ client.stage = "challenged"
  /\ LET owner == AddressOfKey(client.key)
         payment == injectOwner(client.challenge, owner)
         authSig == signPaymentAuth(client.key, client.challenge.domain,
                                    payment)
         allowance == checkAllowance
         value == BigInt(payment.value)
         fn == settlementCall(allowance, value)
         permitSig == IF fn = "settlePayment" THEN AbsentSig
                      ELSE signPermit(client.key, USD1_TOKEN, BNB_CHAIN_ID,
                                      S402_FACILITATOR, payment.value,
                                      payment.deadline)
     IN /\ client' = [client EXCEPT
                        !.stage = afterSubmission(client.asyncMode),
                        !.proof = Proof(payment, AbsentSig, authSig,
                                        SettlementHash)]
        /\ chain' = [chain EXCEPT
                       !.submissions = @ + 1,
                       !.tx = [sent |-> TRUE, block |-> 0, status |-> 0,
                               emits |-> FALSE, fn |-> fn,
                               payment |->
                                 TxPayment(owner, payment.recipient, value,
                                           payment.deadline, payment.nonce),
                               from |-> owner,
                               permitSig |-> permitSig]]
  /\ UNCHANGED <<config, now, gate, probe, ledger>>

\* the pending settlement is mined in the next block: it succeeds or
\* reverts, and a success may or may not leave a decodable event
Mine ==
  /\ chain.tx.sent
  /\ chain.tx.block = 0
  /\ chain.head < MaxHead
  /\ \E status \in {0, 1}, emits \in BOOLEAN :
       /\ emits => status = 1
       /\ chain' = [chain EXCEPT !.head = @ + 1,
                                 !.tx.block = chain.head + 1,
                                 !.tx.status = status,
                                 !.tx.emits = emits]
  /\ UNCHANGED <<config, now, gate, probe, client, ledger>>

\* a block without the settlement is added
AdvanceHead ==
  /\ chain.head < MaxHead
  /\ chain' = [chain EXCEPT !.head = @ + 1]
  /\ UNCHANGED <<config, now, gate, probe, client, ledger>>

\* client.ts:157, 182: tx.wait(1) returns once the settlement is in a block
\* (one confirmation), and throws when it reverted
WaitReturns ==
  /\ client.stage = "waiting"
  /\ chain.tx.block > 0
  /\ client' = [client EXCEPT
                  !.stage = IF chain.tx.status = 1 THEN "ready" ELSE "failed"]
  /\ UNCHANGED <<config, now, gate, probe, chain, ledger>>

\* client.ts:192-203, 76-117: request() calls itself with the proof; a 402
\* in answer to that fetch is handled as every 402 is, by signing and
\* settling again (any other answer ends the call, which is recorded when
\* the fetch is made)
ClientRetries ==
  /\ client.stage = "ready"
  /\ pc[1] = "done"
  /\ client.fetches < MaxFetches
  /\ \E nonce \in GeneratedNonces :
       LET st == Serve(Request(client.mode, client.routeKey, UNDEFINED, TRUE,
                               client.proof), nonce)
           again == Len(st.responses) > 0 /\ st.responses[1].status = 402
       IN /\ Set(1, st)
          /\ client' = [client EXCEPT
                          !.stage = IF again THEN afterResponse(402)
                                    ELSE "retried",
                          !.challenge = IF again
                                          THEN st.responses[1].challenge
                                          ELSE @,
                          !.fetches = @ + 1]
  /\ UNCHANGED <<config, now, probe, chain, ledger>>

\* what is kept of an answered request
Entry(i) ==
  [request |-> request[i], granted |-> nextCalls[i] = 1, task |-> task[i],
   responses |-> responses[i]]

\* the proof is presented again, in a new request, once the one before is
\* answered and its verification has ended
Resubmits ==
  /\ client.stage \in {"retried", "failed"}
  /\ pc[1] = "done"
  /\ task[1].stage \in {"none", "resolved"}
  /\ Len(ledger) < MaxSubmits
  /\ ledger' = IF request[1].hasProof THEN Append(ledger, Entry(1))
               ELSE ledger
  /\ \E nonce \in GeneratedNonces :
       Set(1, Serve(Request(client.mode, client.routeKey, UNDEFINED, TRUE,
                            client.proof), nonce))
  /\ UNCHANGED <<config, now, probe, chain, client>>

\* the allowances the owner may have granted: none, the base price, the
\* price of tool.analytics
Allowances == {0, 5, 7}

\* the client's flow alone, over every allowance
ClientInit ==
  /\ config \in Configs
  /\ now = Now0
  /\ GateIdle
  /\ probe = NoProbe
  /\ chain \in {[NoChain EXCEPT !.allowance = a] : a \in Allowances}
  /\ client \in Clients
  /\ ledger = <<>>

\* provider.getTransactionReceipt(txHash) on this chain
ChainReceipt(txHash) ==
  IF txHash = SettlementHash /\ chain.tx.block > 0
    THEN [kind |-> "receipt", blockNumber |-> chain.tx.block,
          status |-> chain.tx.status, to |-> S402_FACILITATOR,
          logs |-> IF chain.tx.emits
                     THEN <<PaymentSettled(chain.tx.from,
                                           chain.tx.payment.recipient,
                                           chain.tx.payment.nonce,
                                           chain.tx.payment.value, 0)>>
                     ELSE <<>>]
    ELSE [kind |-> "null", blockNumber |-> 0, status |-> 0, to |-> "",
          logs |-> <<>>]

\* provider.getBlockNumber() on this chain
ChainBlockNumber == [kind |-> "number", n |-> chain.head]

\* provider.getTransaction(txHash) on this chain (a pending one is known)
ChainTransaction(txHash) ==
  IF txHash = SettlementHash /\ chain.tx.sent
    THEN Transaction(chain.tx.fn, chain.tx.payment, chain.tx.from)
    ELSE [kind |-> "null", fn |-> "", hasPayment |-> FALSE,
          payment |-> NoTxPayment, from |-> ""]

ProviderReceipt ==
  /\ task[1].stage = "receipt"
  /\ Set(1, OnReceipt(Cur(1), ChainReceipt(task[1].txHash)))
  /\ UNCHANGED <<config, now, harness>>

ProviderBlockNumber ==
  /\ task[1].stage = "block"
  /\ Set(1, OnBlockNumber(Cur(1), ChainBlockNumber))
  /\ UNCHANGED <<config, now, harness>>

ProviderTransaction ==
  /\ task[1].stage = "tx"
  /\ Set(1, OnTransaction(Cur(1), ChainTransaction(task[1].txHash)))
  /\ UNCHANGED <<config, now, harness>>

\* ten minutes pass
Sleep ==
  /\ now < Now0 + DEADLINE_WINDOW
  /\ now' = now + DEADLINE_WINDOW
  /\ UNCHANGED <<config, gate, harness>>

ChainNext ==
  \/ ClientRequests
  \/ ClientSettles
  \/ Mine
  \/ AdvanceHead
  \/ WaitReturns
  \/ ClientRetries
  \/ Resubmits
  \/ ProviderReceipt
  \/ ProviderBlockNumber
  \/ ProviderTransaction
  \/ HandlerResponds(1)
  \/ Sleep

ChainSpec == ChainInit /\ [][ChainNext]_vars

ClientNext ==
  \/ ClientRequests
  \/ ClientSettles
  \/ Mine
  \/ AdvanceHead
  \/ WaitReturns
  \/ ClientRetries
  \/ ProviderReceipt
  \/ ProviderBlockNumber
  \/ ProviderTransaction
  \/ HandlerResponds(1)

ClientSpec == ClientInit /\ [][ClientNext]_vars

(***************************************************************************)
(* A change of configuration between challenge and proof.  The server is   *)
(* started again with another PRICE_TABLE_JSON or RECIPIENT (loadConfig    *)
(* reads the environment anew); the caller holds a challenge of the old    *)
(* configuration and presents a proof it has built itself (README, manual  *)
(* payment flow), at the old or at the new price.                          *)
(***************************************************************************)
\* the overrides after the change: tool.example at 7, tool.analytics at the
\* base price
RepricedTable == [r \in {"tool.example"} |-> <<"7">>]

OtherRecipient == "0xD4"

\* env.ts loadConfig, run again with a changed environment
Reloads ==
  /\ config.PRICE_TABLE_JSON = PriceTable
  /\ config.RECIPIENT = RECIPIENT
  /\ \E t \in {PriceTable, RepricedTable}, rc \in {RECIPIENT, OtherRecipient} :
       /\ <<t, rc>> # <<PriceTable, RECIPIENT>>
       /\ config' = [config EXCEPT !.PRICE_TABLE_JSON = t, !.RECIPIENT = rc]
  /\ UNCHANGED <<now, gate, harness>>

\* the caller signs a payment for the challenge's nonce and deadline, at a
\* price and for a recipient of its choosing, and presents it
ProofSubmitted ==
  /\ client.stage = "challenged"
  /\ pc[1] = "done"
  /\ \E value \in {BASE_PRICE_USD1, <<"7">>},
        recipient \in {RECIPIENT, OtherRecipient} :
       LET payment == [client.challenge.payment EXCEPT
                         !.owner = AddressOfKey(client.key),
                         !.value = value,
                         !.recipient = recipient]
           authSig == signPaymentAuth(client.key, client.challenge.domain,
                                      payment)
           proof == Proof(payment, AbsentSig, authSig, SettlementHash)
       IN /\ client' = [client EXCEPT !.stage = "retried", !.proof = proof]
          /\ Set(1, Serve(Request(client.mode, client.routeKey, UNDEFINED,
                                  TRUE, proof),
                          client.challenge.payment.nonce))
  /\ UNCHANGED <<config, now, probe, chain, ledger>>

PriceNext ==
  \/ ClientRequests
  \/ Reloads
  \/ ProofSubmitted
  \/ ProviderReceipt
  \/ HandlerResponds(1)

PriceSpec == ChainInit /\ [][PriceNext]_vars

(***************************************************************************)
(* Several calls of S402Client.request, one after the other.  Each call    *)
(* starts without a proof and is challenged anew.  generateNonce returns   *)
(* 32 random bytes: a value that was not returned before (a collision has  *)
(* probability 2^-256 and is left out).                                    *)
(***************************************************************************)
\* the nonce of the challenge of an earlier call
EntryNonce(e) ==
  IF e.request.hasProof THEN e.request.s402Proof.payment.nonce
  ELSE e.responses[1].challenge.payment.nonce

IssuedNonces ==
  {EntryNonce(ledger[k]) : k \in 1..Len(ledger)}
  \cup {client.challenge.payment.nonce}

\* client.ts:76-110: request() is called again once the call before has
\* ended (with the retried request answered, or with the error of a
\* reverted settlement); its first fetch carries no proof
ClientRequestsAgain ==
  /\ client.stage \in {"retried", "failed"}
  /\ pc[1] = "done"
  /\ task[1].stage \in {"none", "resolved"}
  /\ Len(ledger) < MaxSubmits
  /\ ledger' = Append(ledger, Entry(1))
  /\ \E nonce \in GeneratedNonces \ IssuedNonces :
       LET st == Serve(Request(client.mode, client.routeKey, UNDEFINED, FALSE,
                               NoProof), nonce)
       IN /\ Set(1, st)
          /\ client' = [client EXCEPT !.stage = "challenged",
                                      !.challenge = st.responses[1].challenge,
                                      !.proof = NoProof,
                                      !.fetches = 1]
  /\ UNCHANGED <<config, now, probe, chain>>

AttemptNext ==
  \/ ClientRequests
  \/ ClientSettles
  \/ Mine
  \/ WaitReturns
  \/ ClientRetries
  \/ ClientRequestsAgain
  \/ ProviderReceipt
  \/ ProviderBlockNumber
  \/ ProviderTransaction
  \/ HandlerResponds(1)
  \/ Sleep

AttemptSpec == ChainInit /\ [][AttemptNext]_vars

(***************************************************************************)
(* S402Client.request against any server.  The server is not this gate:   *)
(* it answers each fetch with a status of its choosing, and a 402 carries  *)
(* a challenge in the gate's format.                                       *)
(***************************************************************************)
\* client.ts:101-117: a fetch of request() is answered
AnyServerAnswers ==
  /\ client.stage \in {"start", "ready"}
  /\ client.fetches < MaxFetches
  /\ \E status \in {200, 402, 403}, nonce \in GeneratedNonces :
       LET built == buildPaymentRequest(getPriceForRoute(client.routeKey),
                                        getRecipientForRoute(client.routeKey),
                                        UNDEFINED, nonce)
       IN client' = [client EXCEPT
                       !.stage = afterResponse(status),
                       !.challenge =
                         IF status = 402
                           THEN buildPaymentRequired(client.routeKey,
                                                     built).challenge
                           ELSE @,
                       !.fetches = @ + 1]
  /\ UNCHANGED <<config, now, gate, probe, chain, ledger>>

AnyServerNext ==
  \/ AnyServerAnswers
  \/ ClientSettles
  \/ Mine
  \/ WaitReturns

AnyServerSpec == ChainInit /\ [][AnyServerNext]_vars

(***************************************************************************)
(* The manual flow (client.ts settlePayment, request with s402Proof): the  *)
(* caller builds the payment itself, at the route's price and for the      *)
(* configured recipient, with a nonce and a future deadline of its own     *)
(* choosing, whether or not it has been sent a challenge.                  *)
(***************************************************************************)
\* client.ts:209-227: the caller signs its payment and settles it with
\* settlePayment, which waits for one confirmation
CallerSettles ==
  /\ client.stage \in {"start", "challenged"}
  /\ \E nonce \in GeneratedNonces,
        deadline \in {now + 1, now + DEADLINE_WINDOW, now + 2 * DEADLINE_WINDOW} :
       LET owner == AddressOfKey(client.key)
           price == getPriceForRoute(client.routeKey)
           recipient == getRecipientForRoute(client.routeKey)
           payment == [owner |-> owner, value |-> BigIntToString(price),
                       deadline |-> deadline, recipient |-> recipient,
                       nonce |-> nonce]
           authSig == signPaymentAuth(client.key, Domain(BNB_CHAIN_ID), payment)
       IN /\ client' = [client EXCEPT
                          !.stage = "waiting",
                          !.proof = Proof(payment, AbsentSig, authSig,
                                          SettlementHash)]
          /\ chain' = [chain EXCEPT
                         !.submissions = @ + 1,
                         !.tx = [sent |-> TRUE, block |-> 0, status |-> 0,
                                 emits |-> FALSE, fn |-> "settlePayment",
                                 payment |->
                                   TxPayment(owner, recipient, price,
                                             deadline, nonce),
                                 from |-> owner,
                                 permitSig |-> AbsentSig]]
  /\ UNCHANGED <<config, now, gate, probe, ledger>>

ManualNext ==
  \/ ClientRequests
  \/ CallerSettles
  \/ Mine
  \/ AdvanceHead
  \/ WaitReturns
  \/ ClientRetries
  \/ ProviderReceipt
  \/ ProviderBlockNumber
  \/ ProviderTransaction
  \/ HandlerResponds(1)

ManualSpec == ChainInit /\ [][ManualNext]_vars

(***************************************************************************)
(* Two requests in flight at once.  Express runs the middleware of each    *)
(* request on the one event loop: between two suspensions of one request   *)
(* the steps of the other may run.  Both read the same configuration and   *)
(* the same provider (libs/ethers.ts keeps one for the process).           *)
(***************************************************************************)
Pair == {1, 2}

PairProofs ==
  {BaseProof,
   [BaseProof EXCEPT !.authSig.r = TamperedR],
   [BaseProof EXCEPT !.payment.value = <<"7">>],
   [BaseProof EXCEPT !.txHash = "0xt"]}

PairRequests ==
  {Request(m, "tool.example", UNDEFINED, FALSE, NoProof) :
     m \in {"sync", "async"}}
  \cup {Request(m, "tool.example", UNDEFINED, TRUE, pr) :
          m \in {"sync", "async"}, pr \in PairProofs}

PairReceiptAnswers ==
  {[kind |-> "null", blockNumber |-> 0, status |-> 0, to |-> "", logs |-> <<>>],
   Receipt(1, "0xF0", <<PaymentSettled("0xA1", "0xC3", "0xn1", 5, 0)>>),
   Receipt(1, "0xF0", <<>>)}

PairBlockNumberAnswers ==
  {[kind |-> "number", n |-> n] : n \in {ReceiptBlock, MaxHead}}

PairTransactionAnswers ==
  {[kind |-> "null", fn |-> "", hasPayment |-> FALSE,
    payment |-> NoTxPayment, from |-> ""],
   Transaction("settlePayment",
               TxPayment("0xA1", "0xC3", 5, Now0 + DEADLINE_WINDOW, "0xn1"),
               "0xA1")}

PairInit ==
  /\ config \in Configs
  /\ now = Now0
  /\ request = [i \in Pair |-> NoRequest]
  /\ pc = [i \in Pair |-> "idle"]
  /\ responses = [i \in Pair |-> <<>>]
  /\ nextCalls = [i \in Pair |-> 0]
  /\ forwarded = [i \in Pair |-> 0]
  /\ s402 = [i \in Pair |-> NoContext]
  /\ task = [i \in Pair |-> NoTask]
  /\ steps = [i \in Pair |-> <<>>]
  /\ logs = [i \in Pair |-> <<>>]
  /\ probe = NoProbe
  /\ NoWorld

\* a request arrives at its route's middleware while the other request may
\* be suspended
PairArrives(i) ==
  /\ pc[i] = "idle"
  /\ \E r \in PairRequests, nonce \in GeneratedNonces :
       Set(i, IF r.mode = "sync"
                THEN requireS402Step(Arrived(Cur(i), r), nonce)
                ELSE requireS402AsyncStep(Arrived(Cur(i), r), nonce))
  /\ UNCHANGED <<config, now, harness>>

\* the shared provider answers the call of request i
PairReceipt(i) ==
  /\ task[i].stage = "receipt"
  /\ \E answer \in PairReceiptAnswers : Set(i, OnReceipt(Cur(i), answer))
  /\ UNCHANGED <<config, now, harness>>

PairBlockNumber(i) ==
  /\ task[i].stage = "block"
  /\ \E answer \in PairBlockNumberAnswers :
       Set(i, OnBlockNumber(Cur(i), answer))
  /\ UNCHANGED <<config, now, harness>>

PairTransaction(i) ==
  /\ task[i].stage = "tx"
  /\ \E answer \in PairTransactionAnswers :
       Set(i, OnTransaction(Cur(i), answer))
  /\ UNCHANGED <<config, now, harness>>

PairNext ==
  \/ \E i \in Pair : PairArrives(i)
  \/ \E i \in Pair : PairReceipt(i)
  \/ \E i \in Pair : PairBlockNumber(i)
  \/ \E i \in Pair : PairTransaction(i)
  \/ \E i \in Pair : HandlerResponds(i)

PairSpec == PairInit /\ [][PairNext]_vars

(***************************************************************************)
(* Properties.  They are stated on what a caller and the chain can see:    *)
(* the request, the responses, the calls of next(), req.s402, the steps    *)
(* taken and the log.  What a proof "is" (well-formed, with the right      *)
(* parameters, signed by its owner) is stated here on the request itself,  *)
(* independently of the operators that model the code's checks.            *)
(***************************************************************************)
Has(seq, x) == \E k \in 1..Len(seq) : seq[k] = x

Gated(i) == pc[i] # "idle" /\ request[i].mode \in {"sync", "async"}

SameAddress(a, b) == toLowerCase(a) = toLowerCase(b)

\* the route's price, as the decimal string a challenge carries
RoutePrice(i) == BigIntToString(getPriceForRoute(request[i].routeKey))

ValueDiffers(i) == request[i].s402Proof.payment.value # RoutePrice(i)

RecipientDiffers(i) ==
  ~SameAddress(request[i].s402Proof.payment.recipient,
               getRecipientForRoute(request[i].routeKey))

DeadlinePassed(i) == request[i].s402Proof.payment.deadline <= request[i].at

WrongChain == config.CHAIN_ID # 56

ParamsCorrect(i) ==
  /\ request[i].s402Proof.txHash # UNDEFINED
  /\ ~ValueDiffers(i)
  /\ ~RecipientDiffers(i)
  /\ ~DeadlinePassed(i)
  /\ ~WrongChain

\* the authorization is the owner's: made with the owner's key over this
\* payment, for the facilitator on chain 56
SignedByOwner(i) ==
  LET proof == request[i].s402Proof IN
  /\ ChecksumOk(proof.payment.owner)
  /\ \E k \in Keys :
       /\ SameAddress(AddressOfKey(k), proof.payment.owner)
       /\ proof.authSig = signPaymentAuth(k, Domain(56), proof.payment)

WellFormedProof(i) ==
  request[i].hasProof /\ request[i].s402Proof \in SchemaValidProofs

MalformedProof(i) ==
  request[i].hasProof /\ request[i].s402Proof \in SchemaInvalidProofs

ChainSteps == {"getTransactionReceipt", "getBlockNumber", "getTransaction"}

NoChainCall(i) ==
  /\ task[i].stage = "none"
  /\ \A k \in 1..Len(steps[i]) : steps[i][k] \notin ChainSteps

\* the request was answered once, with this status, and never reached the
\* handler
RejectedWith(i, status) ==
  /\ pc[i] = "done"
  /\ nextCalls[i] = 0
  /\ s402[i] = NoContext
  /\ Len(responses[i]) = 1
  /\ responses[i][1].status = status

\* C1: under requireS402 the handler is reached (next() called, with a
\* context attached) only for a request whose proof is well-formed, has the
\* right parameters and the owner's signature, and whose transaction the
\* settlement verifier has found settled (verified = true); it is reached
\* once.
SyncHandlerOnlyAfterFullVerification ==
  \A i \in Reqs :
    (request[i].mode = "sync" /\ nextCalls[i] > 0) =>
      /\ nextCalls[i] = 1
      /\ WellFormedProof(i)
      /\ ParamsCorrect(i)
      /\ SignedByOwner(i)
      /\ task[i].stage = "resolved"
      /\ task[i].result.verified
      /\ task[i].txHash = request[i].s402Proof.txHash
      /\ task[i].payment = request[i].s402Proof.payment
      /\ s402[i].attached
      /\ s402[i].txHash = request[i].s402Proof.txHash
      /\ Has(steps[i], "schema") /\ Has(steps[i], "params")
      /\ Has(steps[i], "signature")

SyncGrantedAfterSettlement ==
  \E i \in Reqs :
    /\ request[i].mode = "sync"
    /\ nextCalls[i] = 1
    /\ task[i].result.verified
    /\ s402[i].attached

\* C2: under requireS402, once the settlement verifier has answered
\* verified = false for a request, the request is answered 403 with the
\* verifier's reason in the message and the handler is not reached.
SyncSettlementFailureIs403 ==
  \A i \in Reqs :
    (/\ request[i].mode = "sync"
     /\ task[i].stage = "resolved"
     /\ ~task[i].result.verified) =>
      /\ RejectedWith(i, 403)
      /\ Includes(responses[i][1].message, task[i].result.error)

\* the chain client raised an error while the request's settlement was
\* being verified (blockchainService.ts:173-176 is the only origin of this
\* reason)
ProviderErrored(i) ==
  task[i].stage = "resolved" /\ task[i].result.error = ErrVerification

\* C3: a chain-client error during settlement verification never shows as
\* a 500 response, under any middleware; under requireS402, where the
\* caller waits for the verifier, it shows as the 403 of a failed
\* verification.
ProviderErrorNever500 ==
  \A i \in Reqs :
    ProviderErrored(i) =>
      /\ \A k \in 1..Len(responses[i]) : responses[i][k].status # 500
      /\ request[i].mode = "sync" => RejectedWith(i, 403)

\* C4: a request without a proof on a route gated by requireS402 or
\* requireS402Async is answered 402 and does not reach the handler; the
\* challenge carries the route's price and recipient, the deadline
\* now + 600, a generated 32-byte nonce, and the owner the caller declared
\* or else the zero address.
NoProofIsChallenged ==
  \A i \in Reqs :
    (Gated(i) /\ ~request[i].hasProof) =>
      /\ RejectedWith(i, 402)
      /\ forwarded[i] = 0
      /\ NoChainCall(i)
      /\ LET payment == responses[i][1].challenge.payment IN
         /\ payment.value = RoutePrice(i)
         /\ payment.value =
              (IF request[i].routeKey \in DOMAIN PriceTable
                 THEN PriceTable[request[i].routeKey] ELSE BASE_PRICE_USD1)
         /\ payment.recipient = RECIPIENT
         /\ payment.deadline = request[i].at + 600
         /\ payment.nonce \in GeneratedNonces
         /\ hex32Schema(payment.nonce)
         /\ payment.owner = (IF request[i].owner = UNDEFINED
                               THEN "0x00" ELSE request[i].owner)

ChallengedLater ==
  \E i \in Reqs :
    /\ request[i].mode = "async"
    /\ ~request[i].hasProof
    /\ request[i].owner = "0xA1"
    /\ request[i].at = Now0 + 1
    /\ pc[i] = "done"
    /\ responses[i][1].status = 402
    /\ responses[i][1].challenge.payment.deadline = Now0 + 601

\* C5: under requireS402Async a request whose proof is well-formed, has the
\* right parameters and the owner's signature has reached the handler in
\* every state from its arrival on, so also while its verification is
\* still running; its context has verifiedAsync = true and the handle of
\* the verification.  A context attached by requireS402 has neither.
AsyncGrantsWithoutWaiting ==
  \A i \in Reqs :
    /\ (/\ request[i].mode = "async"
        /\ pc[i] # "idle"
        /\ WellFormedProof(i)
        /\ ParamsCorrect(i)
        /\ SignedByOwner(i)) =>
         /\ nextCalls[i] = 1
         /\ pc[i] \in {"handler", "done"}
         /\ task[i].stage # "none"
         /\ s402[i].attached
         /\ s402[i].verifiedAsync
         /\ s402[i].verificationPromise
    /\ (request[i].mode = "sync" /\ s402[i].attached) =>
         /\ ~s402[i].verifiedAsync
         /\ ~s402[i].verificationPromise

AsyncGrantedWhilePending ==
  \E i \in Reqs :
    /\ request[i].mode = "async"
    /\ nextCalls[i] = 1
    /\ task[i].stage = "receipt"
    /\ s402[i].verifiedAsync
    /\ s402[i].verificationPromise

\* C6: under requireS402Async, the step in which the background verifier
\* resolves leaves the granted request as it was (no response sent or
\* changed, no call of next(), the context kept) and adds exactly one log
\* entry: info when verified, warn when not.
BackgroundOutcomeOnlyLogged ==
  [][\A i \in Reqs :
       (/\ request[i].mode = "async"
        /\ nextCalls[i] = 1
        /\ task[i].stage # "resolved"
        /\ task'[i].stage = "resolved") =>
         /\ nextCalls'[i] = nextCalls[i]
         /\ forwarded'[i] = forwarded[i]
         /\ responses'[i] = responses[i]
         /\ pc'[i] = pc[i]
         /\ s402'[i] = s402[i]
         /\ Len(logs'[i]) = Len(logs[i]) + 1
         /\ SubSeq(logs'[i], 1, Len(logs[i])) = logs[i]
         /\ logs'[i][Len(logs'[i])][1] =
              (IF task'[i].result.verified THEN "info" ELSE "warn")]_vars

AsyncFailedInBackground ==
  \E i \in Reqs :
    /\ request[i].mode = "async"
    /\ task[i].stage = "resolved"
    /\ ~task[i].result.verified
    /\ nextCalls[i] = 1
    /\ s402[i].attached
    /\ responses[i] = <<Response(200, "", <<>>, NoChallenge)>>
    /\ logs[i][Len(logs[i])][1] = "warn"

\* C7: a proof that breaks the schema is answered 400 under requireS402 and
\* requireS402Async; nothing follows: no handler, no parameter validation,
\* no signature verification, no chain-client call.
SchemaFailureIs400 ==
  \A i \in Reqs :
    (Gated(i) /\ MalformedProof(i)) =>
      /\ RejectedWith(i, 400)
      /\ steps[i] = <<"schema">>
      /\ NoChainCall(i)

SchemaRejected ==
  \E i \in Reqs :
    /\ request[i].mode = "sync"
    /\ request[i].s402Proof = [BaseProof EXCEPT !.authSig.v = 29]
    /\ pc[i] = "done"
    /\ responses[i][1].status = 400

\* C8: a well-formed proof with a wrong value, a wrong recipient, a
\* deadline not after now, or presented while the configured chain is not
\* 56, is answered 403 under requireS402 and requireS402Async, and the
\* message names every parameter that failed.
ParameterMismatchIs403NamingAll ==
  \A i \in Reqs :
    (/\ Gated(i)
     /\ WellFormedProof(i)
     /\ (ValueDiffers(i) \/ RecipientDiffers(i) \/ DeadlinePassed(i)
         \/ WrongChain)) =>
      /\ RejectedWith(i, 403)
      /\ NoChainCall(i)
      /\ LET message == responses[i][1].message IN
         /\ ValueDiffers(i) =>
              Includes(message, <<"Invalid", "payment", "value">>)
         /\ RecipientDiffers(i) =>
              Includes(message, <<"Invalid", "recipient">>)
         /\ DeadlinePassed(i) =>
              Includes(message, <<"deadline", "expired">>)
         /\ WrongChain => Includes(message, <<"Invalid", "chain", "ID">>)

SeveralParametersRejected ==
  \E i \in Reqs :
    /\ request[i].mode = "async"
    /\ WellFormedProof(i)
    /\ request[i].s402Proof.txHash # UNDEFINED
    /\ ValueDiffers(i)
    /\ RecipientDiffers(i)
    /\ DeadlinePassed(i)
    /\ pc[i] = "done"
    /\ responses[i][1].status = 403

ExpiredDeadlineNeverGranted ==
  \A i \in Reqs :
    (/\ Gated(i)
     /\ request[i].hasProof
     /\ request[i].s402Proof.payment.deadline <= request[i].at) =>
      /\ nextCalls[i] = 0
      /\ pc[i] = "done"
      /\ s402[i] = NoContext
      /\ WellFormedProof(i) =>
           /\ responses[i][1].status = 403
           /\ Includes(responses[i][1].message, <<"deadline", "expired">>)

\* the boundary: everything else right, deadline = now
DeadlineAtNowRejected ==
  \E i \in Reqs :
    /\ request[i].mode = "sync"
    /\ WellFormedProof(i)
    /\ request[i].s402Proof.payment.deadline = request[i].at
    /\ request[i].s402Proof.txHash # UNDEFINED
    /\ ~ValueDiffers(i) /\ ~RecipientDiffers(i) /\ ~WrongChain
    /\ SignedByOwner(i)
    /\ pc[i] = "done"
    /\ responses[i][1].status = 403

\* the full synchronous verification of request i has succeeded
FullyVerified(i) ==
  /\ WellFormedProof(i)
  /\ ParamsCorrect(i)
  /\ SignedByOwner(i)
  /\ task[i].stage = "resolved"
  /\ task[i].result.verified

\* C12: under optionalS402 the gate answers nothing itself (the only
\* response is the handler's) and calls next() exactly once: not yet while
\* it awaits the verifier, once from then on; no error is forwarded.
\* After it, a context is attached exactly when the proof passed schema,
\* parameters, signature and settlement; otherwise there is none.
OptionalAlwaysProceeds ==
  \A i \in Reqs :
    (request[i].mode = "optional" /\ pc[i] # "idle") =>
      /\ forwarded[i] = 0
      /\ \A k \in 1..Len(responses[i]) : responses[i][k].status = 200
      /\ pc[i] = "awaiting" =>
           /\ nextCalls[i] = 0
           /\ task[i].stage \in {"receipt", "block", "tx"}
      /\ pc[i] # "awaiting" =>
           /\ pc[i] \in {"handler", "done"}
           /\ nextCalls[i] = 1
           /\ s402[i].attached <=> FullyVerified(i)
           /\ s402[i].attached => s402[i] = SyncContext(request[i].s402Proof)
           /\ ~s402[i].attached => s402[i] = NoContext

OptionalProceedsAfterFailure ==
  \E i \in Reqs :
    /\ request[i].mode = "optional"
    /\ WellFormedProof(i)
    /\ ParamsCorrect(i)
    /\ SignedByOwner(i)
    /\ task[i].stage = "resolved"
    /\ ~task[i].result.verified
    /\ nextCalls[i] = 1
    /\ s402[i] = NoContext
    /\ responses[i] = <<Response(200, "", <<>>, NoChallenge)>>

\* the message the facilitator contract checks for payment p: p's fields
\* and the facilitator as spender
AuthorizationOf(p) ==
  [owner |-> p.owner, spender |-> "0xF0", value |-> p.value,
   deadline |-> p.deadline, recipient |-> p.recipient, nonce |-> p.nonce]

\* sig is the signature, by the key of p.owner, of p's authorization under
\* domain d (a message with an address the encoder refuses has none)
ValidAuthorization(p, sig, d) ==
  /\ TypedDataEncodable(d, AuthorizationOf(p))
  /\ \E k \in Keys :
       /\ SameAddress(AddressOfKey(k), p.owner)
       /\ sig = signTypedData(k, d, AuthorizationOf(p))

FieldsChanged(p, q) ==
  (IF SameAddress(p.owner, q.owner) THEN 0 ELSE 1)
  + (IF BigInt(p.value) = BigInt(q.value) THEN 0 ELSE 1)
  + (IF p.deadline = q.deadline THEN 0 ELSE 1)
  + (IF SameAddress(p.recipient, q.recipient) THEN 0 ELSE 1)
  + (IF p.nonce = q.nonce THEN 0 ELSE 1)

\* C14: when a signature verifies for a payment, it does not verify, under
\* the same domain, for a payment that differs from it in exactly one of
\* owner, value, deadline, recipient and nonce.
OneFieldChangeBreaksSignature ==
  (/\ probe.stage = "both"
   /\ probe.signedVerdict
   /\ FieldsChanged(probe.signed, probe.payment) = 1) =>
    ~probe.verdict

ChangedNonceRefused ==
  /\ probe.stage = "both"
  /\ probe.signedVerdict
  /\ probe.payment.nonce # probe.signed.nonce
  /\ ~probe.verdict

\* the receipt holds a PaymentSettled event of the facilitator for
\* payment p: from the owner, to the recipient, with the nonce, for the
\* value (alone or with the platform fee)
SettlementEventIn(receipt, p) ==
  \E k \in 1..Len(receipt.logs) :
    LET log == receipt.logs[k] IN
    /\ log.kind = "event" /\ log.name = "PaymentSettled"
    /\ SameAddress(log.from, p.owner)
    /\ SameAddress(log.to, p.recipient)
    /\ log.nonce = p.nonce
    /\ BigInt(p.value) \in {log.value, log.value + log.platformFee}

\* the receipt is of a successful call of the facilitator, and deep enough
\* under the answered head
SettledDeepEnough(i) ==
  /\ task[i].receipt.kind = "receipt"
  /\ task[i].block.kind = "number"
  /\ task[i].block.n - task[i].receipt.blockNumber + 1
       >= config.MINIMUM_CONFIRMATIONS
  /\ task[i].receipt.status = 1
  /\ SameAddress(task[i].receipt.to, "0xF0")

\* C18: when the receipt is deep enough, successful, of the facilitator,
\* and holds a settlement event matching the payment, the verifier answers
\* verified = true at once: getTransaction is never called, whatever the
\* call data is.
EventPathSuffices ==
  \A i \in Reqs :
    (SettledDeepEnough(i) /\ SettlementEventIn(task[i].receipt, task[i].payment))
      => /\ task[i].stage = "resolved"
         /\ task[i].result.verified
         /\ task[i].result.error = <<>>
         /\ task[i].transaction = NoTransaction
         /\ ~Has(steps[i], "getTransaction")

VerifiedByEventAmongOtherLogs ==
  \E i \in Reqs :
    /\ task[i].stage = "resolved"
    /\ task[i].result.verified
    /\ Len(task[i].receipt.logs) = 3
    /\ ~Has(steps[i], "getTransaction")

\* the call data is a settlement call carrying payment p, sent by the owner
SettlementCallFor(tx, p) ==
  /\ tx.kind = "tx"
  /\ tx.fn \in {"settlePayment", "settlePaymentWithPermit"}
  /\ tx.hasPayment
  /\ SameAddress(tx.payment.owner, p.owner)
  /\ SameAddress(tx.payment.recipient, p.recipient)
  /\ tx.payment.value = BigInt(p.value)
  /\ tx.payment.deadline = p.deadline
  /\ tx.payment.nonce = p.nonce
  /\ SameAddress(tx.from, p.owner)

\* C19: the call data is looked at exactly when the receipt passed the
\* checks and holds no matching event; the verifier then answers
\* verified = true exactly when the transaction calls settlePayment or
\* settlePaymentWithPermit with the payment's owner, recipient, value,
\* deadline and nonce and was sent by the owner.
FallbackVerifiesIffCalldataMatches ==
  \A i \in Reqs :
    /\ task[i].stage = "tx" =>
         /\ SettledDeepEnough(i)
         /\ ~SettlementEventIn(task[i].receipt, task[i].payment)
    /\ (task[i].stage = "resolved" /\ task[i].transaction.kind # "none") =>
         /\ SettledDeepEnough(i)
         /\ ~SettlementEventIn(task[i].receipt, task[i].payment)
         /\ task[i].result.verified <=>
              SettlementCallFor(task[i].transaction, task[i].payment)

VerifiedByCalldata ==
  \E i \in Reqs :
    /\ task[i].stage = "resolved"
    /\ task[i].transaction.fn = "settlePaymentWithPermit"
    /\ task[i].receipt.logs = <<ForeignLog>>
    /\ task[i].result.verified

\* the client has built its proof from the challenge it received
ProofBuilt == client.stage \in {"waiting", "ready", "retried", "failed"}

\* C15: for every challenge the server issues, the message the SDK signs
\* (the challenge's payment with the signer as owner, the challenge
\* domain's verifyingContract as spender, under the challenge's domain) is
\* the message the server reconstructs at verification, so
\* verifyEIP712Signature is true for the proof the SDK builds, and the gate
\* never answers that proof with "Invalid signature".
SdkMessageIsServerMessage ==
  ProofBuilt =>
    LET p == client.proof.payment
        sig == client.proof.authSig
    IN /\ p = [client.challenge.payment EXCEPT
                 !.owner = AddressOfKey(client.key)]
       /\ sig.r.kind = "sig"
       /\ sig.r.key = client.key
       /\ sig.r.msg = TypedDataDigest(buildEIP712Domain, AuthorizationOf(p))
       /\ verifyEIP712Signature(p, sig, buildEIP712Domain)
       /\ \A k \in 1..Len(responses[1]) :
            ~Includes(responses[1][k].message, <<"Invalid", "signature">>)

SdkProofPassedSignatureCheck ==
  /\ client.stage = "retried"
  /\ client.key = "k2"
  /\ request[1].s402Proof = client.proof
  /\ Has(steps[1], "signature")
  /\ Has(steps[1], "getTransactionReceipt")

\* the sync client's first request with its proof, made after tx.wait(1)
\* returned, has been answered by the synchronous gate of a server on
\* chain 56 before the payment's deadline
SyncRetryAnswered ==
  /\ client.stage = "retried"
  /\ ~client.asyncMode
  /\ client.mode = "sync"
  /\ Len(ledger) = 0
  /\ request[1].hasProof
  /\ pc[1] \in {"handler", "done"}
  /\ ~WrongChain
  /\ ~DeadlinePassed(1)

\* C16: the SDK client in sync mode receives a 402, signs, submits the
\* settlement and waits for one confirmation; the retried request carrying
\* the proof is granted by the synchronous gate, for every allowed value
\* of the server's minimum-confirmations setting.
SyncClientRetryIsGranted == SyncRetryAnswered => nextCalls[1] = 1

\* the same with a server that asks for one confirmation only
SyncClientRetryIsGrantedAtOne ==
  (SyncRetryAnswered /\ getMinimumConfirmations = 1) => nextCalls[1] = 1

\* the verifier's runs over the client's settlement, oldest first: those of
\* the answered requests and the one of the request at the gate
Runs ==
  [k \in 1..(Len(ledger) + 1) |->
     IF k <= Len(ledger) THEN ledger[k].task ELSE task[1]]

\* the run has read the receipt and the chain head
Counted(t) == t.block.kind = "number"

Decided(t) == Counted(t) /\ t.stage = "resolved"

\* head block number - receipt block number + 1
Have(t) == t.block.n - t.receipt.blockNumber + 1

\* C17: the verifier computes confirmations = head block number - receipt
\* block number + 1 and returns verified=false with the insufficient-
\* confirmations reason whenever that is below the configured minimum;
\* re-checking the same successfully settled transaction as the head
\* advances, the result is verified exactly when the confirmations have
\* reached the minimum, and it stays verified for every later head.
ConfirmationsDecideRecheck ==
  /\ \A k \in DOMAIN Runs :
       LET t == Runs[k] IN
       /\ Counted(t) =>
            /\ t.result.confirmations = Have(t)
            /\ Have(t) < getMinimumConfirmations =>
                 /\ t.stage = "resolved"
                 /\ ~t.result.verified
                 /\ t.result.error = ErrInsufficient
       /\ (Decided(t) /\ t.receipt.status = 1) =>
            (t.result.verified <=> Have(t) >= getMinimumConfirmations)
  /\ \A a, b \in DOMAIN Runs :
       (a < b /\ Decided(Runs[a]) /\ Decided(Runs[b])) =>
         /\ Runs[a].receipt = Runs[b].receipt
         /\ Have(Runs[a]) <= Have(Runs[b])
         /\ Runs[a].result.verified => Runs[b].result.verified

VerifiedOnceDeepEnough ==
  /\ Len(ledger) >= 1
  /\ Decided(ledger[1].task)
  /\ ~ledger[1].task.result.verified
  /\ ledger[1].task.result.error = ErrInsufficient
  /\ Decided(task[1])
  /\ task[1].result.verified
  /\ Have(task[1]) = getMinimumConfirmations

\* the request at the gate carries a proof, has been answered and its
\* verification has ended
Answered ==
  /\ request[1].hasProof
  /\ pc[1] = "done"
  /\ task[1].stage \in {"none", "resolved"}

\* the decided requests with a proof, oldest first
Decisions == IF Answered THEN Append(ledger, Entry(1)) ELSE ledger

\* what the chain told the verifier during the request
ChainSeen(e) == <<e.task.receipt, e.task.block, e.task.transaction>>

Expired(e) == e.request.s402Proof.payment.deadline <= e.request.at

\* C20: the gate keeps no record of used transaction hashes or nonces: two
\* requests with the same proof, on the same side of the deadline and told
\* the same by the chain, are decided alike, and a proof that was granted
\* is granted again on every resubmission while its deadline is still in
\* the future.
ResubmissionDecidedAlike ==
  \A a, b \in DOMAIN Decisions :
    LET ea == Decisions[a]
        eb == Decisions[b]
    IN (a < b /\ ea.request.s402Proof = eb.request.s402Proof) =>
         /\ (Expired(ea) = Expired(eb) /\ ChainSeen(ea) = ChainSeen(eb)) =>
              /\ ea.granted = eb.granted
              /\ ea.responses = eb.responses
              /\ ea.task.result = eb.task.result
         /\ (ea.granted /\ ~Expired(eb)) => eb.granted

GrantedTwice ==
  /\ Len(ledger) = 2
  /\ ledger[1].request.mode = "sync"
  /\ ledger[1].granted
  /\ ledger[2].granted
  /\ Answered
  /\ nextCalls[1] = 1
  /\ request[1].s402Proof = ledger[1].request.s402Proof
  /\ request[1].s402Proof.txHash = SettlementHash

\* the request at the gate carries the caller's proof and was decided
\* against the price and recipient now configured
DecidedAtCurrentPrice ==
  LET p == request[1].s402Proof.payment IN
  /\ request[1].hasProof
  /\ (ValueDiffers(1) \/ RecipientDiffers(1)) =>
       /\ RejectedWith(1, 403)
       /\ NoChainCall(1)
       /\ ValueDiffers(1) => Includes(responses[1][1].message, ErrValue)
       /\ RecipientDiffers(1) =>
            Includes(responses[1][1].message, ErrRecipient)
  /\ ParamsCorrect(1) =>
       /\ Has(steps[1], "params")
       /\ Has(steps[1], "signature")
       /\ task[1].stage # "none"

PriceChangedSinceChallenge ==
  client.challenge.payment.value #
    BigIntToString(getPriceForRoute(client.routeKey))

\* C21: the price and recipient a proof is validated against are the ones
\* resolved when the request carrying the proof is processed, not those of
\* the challenge: after a change of the route's price, a proof carrying
\* the old price is rejected with 403 and a proof carrying the new price
\* passes parameter validation.
ProofValidatedAtCurrentPrice ==
  [][(client.stage = "challenged" /\ client'.stage = "retried") =>
       DecidedAtCurrentPrice']_vars

NewPricePasses ==
  /\ client.stage = "retried"
  /\ PriceChangedSinceChallenge
  /\ request[1].hasProof
  /\ ~ValueDiffers(1)
  /\ Has(steps[1], "signature")
  /\ config.RECIPIENT = RECIPIENT

OldPriceRejected ==
  /\ client.stage = "retried"
  /\ PriceChangedSinceChallenge
  /\ request[1].s402Proof.payment.value = client.challenge.payment.value
  /\ RejectedWith(1, 403)

\* the value of the payment the challenge asks for, as a number
ChallengedValue == BigInt(client.challenge.payment.value)

\* sig is key's signature of a token permit for exactly this value and
\* deadline, with the settlement contract as spender
PermitFor(sig, key, value, deadline) ==
  /\ sig.r.kind = "sig"
  /\ sig.r.key = key
  /\ sig.r.msg.name = "USD1"
  /\ sig.r.msg.verifyingContract = "0xe0"
  /\ sig.r.msg.owner = toLowerCase(AddressOfKey(key))
  /\ sig.r.msg.spender = "0xf0"
  /\ sig.r.msg.value = value
  /\ sig.r.msg.deadline = deadline

\* C22: on a 402 the client submits settlePayment when the allowance
\* granted to the settlement contract is at least the payment's value, and
\* otherwise signs a token permit for exactly the payment's value (with
\* the payment's deadline, spender = settlement contract) and submits
\* settlePaymentWithPermit; exactly one settlement transaction is
\* submitted per handled 402.
SettlementCallFollowsAllowance ==
  /\ chain.submissions = IF ProofBuilt THEN 1 ELSE 0
  /\ chain.tx.sent <=> ProofBuilt
  /\ ProofBuilt =>
       /\ chain.tx.payment.value = ChallengedValue
       /\ chain.tx.from = AddressOfKey(client.key)
       /\ IF chain.allowance >= ChallengedValue
            THEN /\ chain.tx.fn = "settlePayment"
                 /\ chain.tx.permitSig.r.kind # "sig"
            ELSE /\ chain.tx.fn = "settlePaymentWithPermit"
                 /\ PermitFor(chain.tx.permitSig, client.key, ChallengedValue,
                              client.challenge.payment.deadline)

SettledWithExactAllowance ==
  /\ ProofBuilt
  /\ chain.allowance = ChallengedValue
  /\ chain.tx.fn = "settlePayment"
  /\ client.stage = "retried"

SettledWithPermit ==
  /\ ProofBuilt
  /\ chain.allowance = 5
  /\ ChallengedValue = 7
  /\ chain.tx.fn = "settlePaymentWithPermit"

\* the settlement is in a block and succeeded: it has one confirmation
\* or more
SettlementConfirmed ==
  /\ chain.tx.block > 0
  /\ chain.tx.status = 1
  /\ chain.head - chain.tx.block + 1 >= 1

\* C23: in sync mode the client resubmits the call with the proof only
\* after the settlement has at least one confirmation; in async mode it
\* goes on to resubmit right after the submission, with the submitted
\* transaction's hash, without waiting; in both modes the resubmission
\* comes after the submission of the settlement, never before.
ResubmissionFollowsSettlement ==
  /\ request[1].hasProof =>
       /\ client.stage = "retried"
       /\ chain.tx.sent
       /\ chain.submissions = 1
       /\ request[1].s402Proof = client.proof
       /\ request[1].s402Proof.txHash = SettlementHash
  /\ (~client.asyncMode /\ client.stage \in {"ready", "retried"}) =>
       SettlementConfirmed
  /\ (client.asyncMode /\ chain.tx.sent) =>
       client.stage \in {"ready", "retried"}
  /\ (client.asyncMode /\ client.stage = "ready") =>
       /\ pc[1] = "done"
       /\ chain.head = 0 => chain.tx.block = 0

AsyncResubmittedUnconfirmed ==
  /\ client.asyncMode
  /\ client.stage = "retried"
  /\ request[1].hasProof
  /\ chain.tx.block = 0

SyncResubmittedConfirmed ==
  /\ ~client.asyncMode
  /\ client.stage = "retried"
  /\ request[1].hasProof
  /\ SettlementConfirmed

\* the steps of the pipeline, in the order of the data flow
PipelineOrder ==
  <<"schema", "params", "signature", "getTransactionReceipt",
    "getBlockNumber", "getTransaction">>

\* C24: under the sync and async disciplines schema validation precedes
\* parameter validation, which precedes signature verification, which
\* precedes any chain-client call; no chain-client call is issued unless
\* the schema, parameter and signature checks have all succeeded.
PipelineInOrder ==
  \A i \in Reqs :
    Gated(i) =>
      /\ Len(steps[i]) <= Len(PipelineOrder)
      /\ \/ steps[i] = SubSeq(PipelineOrder, 1, Len(steps[i]))
         \/ ~request[i].hasProof /\ steps[i] = <<"challenge">>
      /\ (\E k \in 1..Len(steps[i]) : steps[i][k] \in ChainSteps) =>
           /\ WellFormedProof(i)
           /\ ParamsCorrect(i)
           /\ SignedByOwner(i)

WholePipelineWalked ==
  \E i \in Reqs :
    /\ request[i].mode = "sync"
    /\ steps[i] = PipelineOrder
    /\ task[i].result.verified

\* the receipt's target is the settlement contract
ToFacilitator(receipt) == receipt.to \in {"0xF0", "0xf0"}

\* head - receipt block + 1 of request i's verification
Confirmations(i) == task[i].block.n - task[i].receipt.blockNumber + 1

\* C25: the verifier's checks short-circuit in a fixed order and the
\* reason reported is that of the first failing step: absent receipt
\* (no block-height query made), then insufficient confirmations, then
\* non-success status, then a target other than the settlement contract,
\* all before any log or call-data matching; a reverted transaction that
\* also lacks confirmations reports insufficient confirmations.
VerifierStopsAtFirstFailure ==
  \A i \in Reqs :
    LET t == task[i] IN
    /\ (t.stage = "resolved" /\ t.receipt.kind # "receipt") =>
         /\ ~t.result.verified
         /\ t.result.error \in {ErrNotFound, ErrVerification}
         /\ t.block.kind = "none"
         /\ ~Has(steps[i], "getBlockNumber")
    /\ (t.stage = "resolved" /\ t.result.error = ErrNotFound) =>
         t.receipt.kind # "receipt"
    /\ (t.receipt.kind = "receipt" /\ t.block.kind = "number") =>
         LET first ==
               IF Confirmations(i) < getMinimumConfirmations
                 THEN ErrInsufficient
               ELSE IF t.receipt.status # 1 THEN ErrTxFailed
               ELSE IF ~ToFacilitator(t.receipt) THEN ErrWrongContract
               ELSE <<>>
         IN IF first # <<>>
              THEN /\ t.stage = "resolved"
                   /\ ~t.result.verified
                   /\ t.result.error = first
                   /\ ~Has(steps[i], "getTransaction")
              ELSE t.result.error \notin
                     {ErrInsufficient, ErrTxFailed, ErrWrongContract}

RevertedAndShallowIsInsufficient ==
  \E i \in Reqs :
    /\ task[i].stage = "resolved"
    /\ task[i].receipt.kind = "receipt"
    /\ task[i].receipt.status = 0
    /\ ~ToFacilitator(task[i].receipt)
    /\ task[i].result.error = ErrInsufficient

\* request i was verified on the primary path: by an event, without the
\* transaction being fetched
VerifiedByEvent(i) ==
  /\ task[i].stage = "resolved"
  /\ task[i].result.verified
  /\ ~Has(steps[i], "getTransaction")

\* C26: a decoded settlement event matches the expected payment iff
\* sender = owner, destination = recipient, the nonces are equal and the
\* event's value, or its value plus fee, is the expected value; the
\* verifier returns verified on the primary path iff at least one log of
\* the receipt is such a match; undecodable and other logs are skipped
\* without failing the verification.
PrimaryPathIffEventMatches ==
  \A i \in Reqs :
    /\ VerifiedByEvent(i) =>
         /\ SettledDeepEnough(i)
         /\ SettlementEventIn(task[i].receipt, task[i].payment)
    /\ SettledDeepEnough(i) =>
         IF SettlementEventIn(task[i].receipt, task[i].payment)
           THEN VerifiedByEvent(i)
           ELSE /\ Has(steps[i], "getTransaction")
                /\ task[i].stage = "resolved" =>
                     task[i].transaction # NoTransaction

VerifiedByGrossAmount ==
  \E i \in Reqs :
    /\ VerifiedByEvent(i)
    /\ Len(task[i].receipt.logs) = 1
    /\ task[i].receipt.logs[1].platformFee = 1
    /\ task[i].receipt.logs[1].value + 1 = BigInt(task[i].payment.value)

SkippedLogsThenFallback ==
  \E i \in Reqs :
    /\ SettledDeepEnough(i)
    /\ task[i].receipt.logs = <<ForeignLog>>
    /\ task[i].stage = "resolved"
    /\ task[i].result.verified

\* C27: whenever the verifier returns verified=true, the receipt existed,
\* the confirmations (head - receipt block + 1) were at least the
\* configured minimum, the receipt's status was success, its target was
\* the settlement contract, and a log matched the expected payment or the
\* call data and sender matched it; the confirmations returned are the
\* computed ones.
VerifiedIsSound ==
  \A i \in Reqs :
    task[i].result.verified =>
      /\ task[i].stage = "resolved"
      /\ task[i].receipt.kind = "receipt"
      /\ task[i].block.kind = "number"
      /\ Confirmations(i) >= getMinimumConfirmations
      /\ task[i].receipt.status = 1
      /\ ToFacilitator(task[i].receipt)
      /\ \/ SettlementEventIn(task[i].receipt, task[i].payment)
         \/ /\ ~SettlementEventIn(task[i].receipt, task[i].payment)
            /\ SettlementCallFor(task[i].transaction, task[i].payment)
      /\ task[i].result.confirmations = Confirmations(i)
      /\ task[i].result.error = <<>>

VerifiedDeeperThanTheMinimum ==
  \E i \in Reqs :
    /\ task[i].result.verified
    /\ Confirmations(i) > getMinimumConfirmations
    /\ task[i].result.confirmations = MaxHead
    /\ request[i].mode = "async"

\* the fallback of request i has fetched the transaction
FallbackAnswered(i) ==
  /\ task[i].stage = "resolved"
  /\ task[i].transaction.kind = "tx"

\* its call data decodes to one of the two settlement functions
DecodesToSettlement(tx) ==
  tx.fn \in {"settlePayment", "settlePaymentWithPermit"}

\* request i's verification failed with this reason
FailedWith(i, reason) ==
  /\ ~task[i].result.verified
  /\ task[i].result.error = reason
  /\ task[i].result.confirmations = Confirmations(i)

\* call data that decodes, whose payment or sender does not match, fails
\* with the payment-parameters-mismatch reason
MismatchIsReported(i) ==
  (/\ DecodesToSettlement(task[i].transaction)
   /\ task[i].transaction.hasPayment
   /\ ~SettlementCallFor(task[i].transaction, task[i].payment)) =>
    FailedWith(i, <<"Payment", "parameters", "mismatch">>)

ProviderThrew(i) ==
  \/ task[i].receipt.kind = "throws"
  \/ task[i].block.kind = "throws"
  \/ task[i].transaction.kind = "throws"

RecoveryRaises(i) ==
  \/ request[i].s402Proof.authSig.r.kind = "zero"
  \/ request[i].s402Proof.payment.owner = "0xa1BAD"

\* the answer of the gate to a well-formed signature that is not the
\* owner's
InvalidSignatureAnswer ==
  [status |-> 403, error |-> "PAYMENT_VERIFICATION_FAILED",
   message |-> <<"Invalid", "signature", ":", "EIP-712", "signature",
                 "verification", "failed">>,
   challenge |-> NoChallenge]

\* C30: a malformed signature (one for which signer recovery raises an
\* exception) makes verifyEIP712Signature return false instead of
\* throwing, so at the gate it has the same 403 invalid-signature outcome
\* as a well-formed wrong signature.
MalformedSignatureIs403 ==
  \A i \in Reqs :
    (/\ Gated(i)
     /\ WellFormedProof(i)
     /\ ParamsCorrect(i)) =>
      /\ RecoveryRaises(i) =>
           /\ ~verifyEIP712Signature(request[i].s402Proof.payment,
                                     request[i].s402Proof.authSig,
                                     buildEIP712Domain)
           /\ RejectedWith(i, 403)
           /\ responses[i] = <<InvalidSignatureAnswer>>
           /\ NoChainCall(i)
      /\ request[i].s402Proof.authSig.r = TamperedR =>
           responses[i] = <<InvalidSignatureAnswer>>

ZeroSignatureRejected ==
  \E i \in Reqs :
    /\ request[i].mode = "sync"
    /\ WellFormedProof(i)
    /\ ParamsCorrect(i)
    /\ request[i].s402Proof.authSig.r = ZeroR
    /\ request[i].s402Proof.payment.owner = "0xA1"
    /\ responses[i] = <<InvalidSignatureAnswer>>

\* the runs of verifyTransactionSettlement started for request i
VerifierRuns(i) ==
  Cardinality({k \in 1..Len(steps[i]) : steps[i][k] = "getTransactionReceipt"})

\* request i was answered by the gate itself with one of these statuses
AnsweredWith(i, statuses) ==
  /\ responses[i] # <<>>
  /\ responses[i][1].status \in statuses

\* C31: the server never retries: a request triggers at most one run of
\* the settlement verifier; the async discipline starts exactly one
\* detached run for each request it grants and does not await it (the
\* request is never suspended on it, so the run may end after the
\* response); no run is started for a request answered 402, 400, or 403
\* for its parameters or its signature.
OneVerifierRunPerRequest ==
  \A i \in Reqs :
    /\ VerifierRuns(i) <= 1
    /\ (request[i].mode = "async" /\ nextCalls[i] > 0) =>
         /\ VerifierRuns(i) = 1
         /\ task[i].stage # "none"
    /\ request[i].mode = "async" => pc[i] # "awaiting"
    /\ (Gated(i) /\ AnsweredWith(i, {400, 402})) => NoChainCall(i)
    /\ (/\ Gated(i)
        /\ WellFormedProof(i)
        /\ AnsweredWith(i, {403})
        /\ ~(ParamsCorrect(i) /\ SignedByOwner(i))) =>
         /\ VerifierRuns(i) = 0
         /\ NoChainCall(i)

\* an async request has been answered by the handler while its one
\* verifier run is still waiting for the chain
AnsweredBeforeTaskEnded ==
  \E i \in Reqs :
    /\ request[i].mode = "async"
    /\ pc[i] = "done"
    /\ AnsweredWith(i, {200})
    /\ VerifierRuns(i) = 1
    /\ task[i].stage = "tx"

\* the nonce of the challenge request i was answered with, if it was
IssuedNonce(i) ==
  IF responses[i] # <<>> /\ responses[i][1].status = 402
    THEN responses[i][1].challenge.payment.nonce
    ELSE "0xn1"

\* request i handled with no other request in the process: its middleware
\* on a fresh slot, then the provider's answers it has received, in order
AloneArrived(i) ==
  LET r == request[i] IN
  IF r.mode = "sync"
    THEN requireS402Step(Arrived(FreshSlot, r), IssuedNonce(i))
    ELSE requireS402AsyncStep(Arrived(FreshSlot, r), IssuedNonce(i))

AloneVerified(i) ==
  LET s0 == AloneArrived(i)
      s1 == OnReceipt(s0, task[i].receipt)
      s2 == OnBlockNumber(s1, task[i].block)
      s3 == OnTransaction(s2, task[i].transaction)
  IN IF s0.task.stage = "none" \/ task[i].stage = "receipt" THEN s0
     ELSE IF s1.task.stage = "resolved" \/ task[i].stage = "block" THEN s1
     ELSE IF s2.task.stage = "resolved" \/ task[i].stage = "tx" THEN s2
     ELSE s3

Alone(i) ==
  LET st == AloneVerified(i) IN
  IF st.pc = "handler" /\ pc[i] = "done"
    THEN [st EXCEPT !.responses = Append(@, Response(200, "", <<>>, NoChallenge)),
                    !.pc = "done"]
    ELSE st

ConfiguredPrice(k) ==
  IF k \in DOMAIN config.PRICE_TABLE_JSON THEN config.PRICE_TABLE_JSON[k]
  ELSE BASE_PRICE_USD1

\* the gate answers the client's first request with a challenge
ChallengeIssued == client.stage = "start" /\ client'.stage = "challenged"

\* C33: the pricing resolver returns the route's override price when the
\* route has one and the configured default price otherwise, and the
\* configured recipient; it depends on the configuration only, so within
\* one request every call returns the same result (the challenge quotes
\* exactly that price and recipient).
PricingFollowsConfiguration ==
  [][ChallengeIssued =>
       /\ \A k \in RouteKeys :
            /\ BigIntToString(getPriceForRoute(k)) = ConfiguredPrice(k)
            /\ getRecipientForRoute(k) = config.RECIPIENT
            /\ getPriceForRoute(k)' = getPriceForRoute(k)
            /\ getRecipientForRoute(k)' = getRecipientForRoute(k)
       /\ client'.challenge.payment.value = ConfiguredPrice(client.routeKey)
       /\ client'.challenge.payment.recipient = config.RECIPIENT]_vars

\* after a reload, a challenge quotes the new override of tool.example and
\* the new recipient
OverrideQuoted ==
  /\ client.stage = "challenged"
  /\ client.routeKey = "tool.example"
  /\ config.PRICE_TABLE_JSON = RepricedTable
  /\ config.RECIPIENT = OtherRecipient
  /\ client.challenge.payment.value = <<"7">>
  /\ client.challenge.payment.recipient = OtherRecipient

\* C34: every independent call of request() uses a fresh challenge: the
\* payment it signs and settles carries the nonce and the deadline of the
\* 402 response this call has just received, and that nonce was issued in
\* no earlier call (the server generates a new one for every 402).
EachAttemptUsesItsChallenge ==
  /\ ProofBuilt =>
       /\ client.proof.payment.nonce = client.challenge.payment.nonce
       /\ client.proof.payment.deadline = client.challenge.payment.deadline
       /\ chain.tx.payment.nonce = client.challenge.payment.nonce
       /\ chain.tx.payment.deadline = client.challenge.payment.deadline
       /\ client.proof.authSig =
            signPaymentAuth(client.key, client.challenge.domain,
                            [client.challenge.payment EXCEPT
                               !.owner = AddressOfKey(client.key)])
  /\ client.stage # "start" =>
       \A k \in 1..Len(ledger) :
         /\ EntryNonce(ledger[k]) # client.challenge.payment.nonce
         /\ ProofBuilt => EntryNonce(ledger[k]) # client.proof.payment.nonce

\* a second call, ten minutes after the first, has settled and presented
\* a payment with another nonce and another deadline than the first
SecondAttemptSignedAnew ==
  /\ Len(ledger) = 1
  /\ ledger[1].request.hasProof
  /\ client.stage = "retried"
  /\ request[1].hasProof
  /\ request[1].s402Proof.payment.nonce # ledger[1].request.s402Proof.payment.nonce
  /\ request[1].s402Proof.payment.deadline
       = ledger[1].request.s402Proof.payment.deadline + DEADLINE_WINDOW
  /\ chain.submissions = 2

\* req.s402 of request i repeats the proof it was submitted with
ContextMirrorsProof(i) ==
  LET proof == request[i].s402Proof IN
  IF request[i].mode = "optional" /\ ~s402[i].attached THEN TRUE
  ELSE IF pc[i] # "idle" /\ nextCalls[i] > 0
    THEN /\ s402[i].attached
         /\ s402[i].payment = proof.payment
         /\ s402[i].owner = proof.payment.owner
         /\ IsDecimalString(proof.payment.value)
         /\ BigIntToString(s402[i].value) = proof.payment.value
         /\ s402[i].txHash = proof.txHash
         /\ s402[i].verifiedAsync = (request[i].mode = "async")
    ELSE s402[i] = NoContext

\* C35: the gate never changes the submitted payment authorization: on a
\* grant (sync or async) the context's payment is the proof's payment, its
\* owner the payment's owner, its value the integer value of the
\* payment's value and its txHash the proof's hash; the context is set
\* once per request, stays as it is, and a request that is not granted
\* has none.
GateLeavesPaymentAlone ==
  [][\A i \in Reqs :
       /\ pc[i] # "idle" => request'[i] = request[i]
       /\ s402[i].attached => s402'[i] = s402[i]
       /\ ContextMirrorsProof(i)']_vars

\* a sync request with a mixed-case owner was granted and answered
MixedCaseOwnerGranted ==
  \E i \in Reqs :
    /\ request[i].mode = "sync"
    /\ request[i].s402Proof.payment.owner = "0xA1"
    /\ request[i].s402Proof.payment.recipient = "0xC3"
    /\ pc[i] = "done"
    /\ nextCalls[i] = 1
    /\ s402[i].payment = request[i].s402Proof.payment
    /\ s402[i].value = 5

\* the responses the gate itself has sent on request i
GateResponses(i) ==
  Cardinality({k \in 1..Len(responses[i]) :
                 responses[i][k].status \in {400, 402, 403}
                 /\ forwarded[i] = 0})

Outcomes(i) == GateResponses(i) + forwarded[i] + nextCalls[i]

\* C36: exactly one outcome per request through requireS402 or
\* requireS402Async, whatever the provider answers: the gate sends one
\* 402, 400 or 403 response, or forwards the error to the error handler
\* once, or invokes the protected handler once; never two of them, so no
\* response of the gate follows the handler and the handler follows no
\* response.  Before the outcome (while suspended on the verifier) none
\* has happened.
ExactlyOneOutcome ==
  \A i \in Reqs :
    Gated(i) =>
      /\ Outcomes(i) <= 1
      /\ pc[i] \in {"handler", "done"} => Outcomes(i) = 1
      /\ pc[i] = "awaiting" => Outcomes(i) = 0 /\ responses[i] = <<>>
      /\ nextCalls[i] = 1 =>
           \A k \in 1..Len(responses[i]) : responses[i][k].status = 200
      /\ forwarded[i] = 1 =>
           /\ Len(responses[i]) = 1
           /\ responses[i][1].status \in {400, 500}
           /\ responses[i][1].error \in {"VALIDATION_ERROR", "INTERNAL_ERROR"}
      /\ GateResponses(i) = 1 => Len(responses[i]) = 1
      /\ Len(responses[i]) <= 1

\* an async request was granted and answered by the handler, its
\* background verification failed afterwards, and the handler's answer is
\* still the only outcome
OneOutcomeAfterBackgroundFailure ==
  \E i \in Reqs :
    /\ request[i].mode = "async"
    /\ pc[i] = "done"
    /\ Outcomes(i) = 1
    /\ nextCalls[i] = 1
    /\ Len(responses[i]) = 1
    /\ responses[i][1].status = 200
    /\ task[i].stage = "resolved"
    /\ ~task[i].result.verified
    /\ task[i].result.error = ErrTxFailed

\* C37: against this server's gate one call of S402Client.request
\* (autoSettle on, no proof supplied by the caller) sends at most two HTTP
\* requests and submits at most one settlement transaction, because the
\* server never answers 402 to a request that carries a proof; the call
\* has ended once the second request is made or the settlement reverted.
OneCallPaysAtMostOnce ==
  /\ client.fetches <= 2
  /\ chain.submissions <= 1
  /\ \A i \in Reqs :
       (pc[i] # "idle" /\ request[i].hasProof) =>
         \A k \in 1..Len(responses[i]) : responses[i][k].status # 402
  /\ client.fetches = 2 =>
       /\ client.stage = "retried"
       /\ chain.submissions = 1
       /\ request[1].hasProof
  /\ client.stage \in {"retried", "failed"} =>
       ~(ENABLED ClientSettles) /\ ~(ENABLED ClientRetries)

\* the call has ended after its second request, which was refused
CallEndedAfterRefusedRetry ==
  /\ client.stage = "retried"
  /\ client.fetches = 2
  /\ chain.submissions = 1
  /\ pc[1] = "done"
  /\ nextCalls[1] = 0
  /\ Len(responses[1]) = 1
  /\ responses[1][1].status \in {403, 500}

\* C38: whatever the server answers (a server that answers 402 to requests
\* carrying a proof included), the sign-settle-retry rounds of one call of
\* S402Client.request are bounded by maxRetries (3 by default), after
\* which the call ends with an error.
RoundsBoundedByMaxRetries ==
  /\ chain.submissions <= maxRetries
  /\ (chain.submissions = maxRetries /\ client.fetches > maxRetries) =>
       client.stage \in {"retried", "failed"}

\* the nonce and deadline of the presented proof are those of a challenge
\* the server has issued
IssuedToCaller ==
  /\ client.challenge.payment.nonce = request[1].s402Proof.payment.nonce
  /\ client.challenge.payment.deadline = request[1].s402Proof.payment.deadline

\* C39: the server does not bind proofs to the challenges it has issued:
\* a proof with the right value and recipient and the owner's signature is
\* granted or refused by the chain id and (under the sync discipline) the
\* settlement check alone, whether or not its nonce and deadline were ever
\* issued in a 402 response; a caller-chosen nonce and any future
\* deadline pass the gate.
ProofsNotBoundToChallenges ==
  (/\ request[1].hasProof
   /\ pc[1] \in {"handler", "done"}) =>
     /\ ParamsCorrect(1) = ~WrongChain
     /\ SignedByOwner(1)
     /\ (nextCalls[1] = 1) =
          (/\ ~WrongChain
           /\ request[1].mode = "sync" => task[1].result.verified)

\* a proof with a nonce and a deadline the server never issued was granted
\* under the sync discipline, after a challenge with another nonce
UnissuedNonceGranted ==
  /\ request[1].hasProof
  /\ request[1].mode = "sync"
  /\ client.challenge.payment.nonce \in GeneratedNonces
  /\ request[1].s402Proof.payment.nonce # client.challenge.payment.nonce
  /\ request[1].s402Proof.payment.deadline = Now0 + 2 * DEADLINE_WINDOW
  /\ ~IssuedToCaller
  /\ nextCalls[1] = 1
  /\ pc[1] = "done"

====
